---------------------------- MODULE Spec2Model ----------------------------
(***************************************************************************)
(* Model of src/src/workers/assetManager.ts: the AssetManager worker       *)
(* (bundle cache, image cache, single and batch export) and the key        *)
(* derivation / counter-mode decryption used for one encrypted bundle      *)
(* variant.                                                                *)
(*                                                                         *)
(* JavaScript runs one job at a time: every action below is the code that  *)
(* runs between two awaits of one handler, so the interleavings of the     *)
(* model are the interleavings the event loop can produce.                 *)
(***************************************************************************)
EXTENDS Integers, Sequences, FiniteSets, Bags, TLC

(***************************************************************************)
(* Bytes and strings.  A string is a sequence of one-character strings, a  *)
(* byte buffer a sequence of numbers in 0..255.                            *)
(***************************************************************************)
Byte == 0..255

\* bit k (0 = lowest) of a byte
Bit(a, k) ==
    CASE k = 0 -> a % 2 [] k = 1 -> (a \div 2) % 2 [] k = 2 -> (a \div 4) % 2
      [] k = 3 -> (a \div 8) % 2 [] k = 4 -> (a \div 16) % 2 [] k = 5 -> (a \div 32) % 2
      [] k = 6 -> (a \div 64) % 2 [] k = 7 -> (a \div 128) % 2

XorBit(a, b, k) == (Bit(a, k) + Bit(b, k)) % 2

\* data[offset + i] ^ keystream[i] on Uint8Array elements
Xor8(a, b) ==
    XorBit(a, b, 0) + 2 * XorBit(a, b, 1) + 4 * XorBit(a, b, 2) + 8 * XorBit(a, b, 3)
    + 16 * XorBit(a, b, 4) + 32 * XorBit(a, b, 5) + 64 * XorBit(a, b, 6)
    + 128 * XorBit(a, b, 7)

Min(a, b) == IF a < b THEN a ELSE b

\* the characters the modelled file and object names are made of
CharCode ==
    [c \in {"a", "b", "c", ".", "/", ":", "x", "y", "t"} |->
        CASE c = "a" -> 97 [] c = "b" -> 98 [] c = "c" -> 99 [] c = "." -> 46
          [] c = "/" -> 47 [] c = ":" -> 58 [] c = "x" -> 120 [] c = "y" -> 121
          [] c = "t" -> 116]

\* new TextEncoder().encode(str)
TextEncode(str) == [k \in 1..Len(str) |-> CharCode[str[k]]]

\* str.endsWith('.ab')
EndsWithAb(str) ==
    /\ Len(str) >= 3
    /\ SubSeq(str, Len(str) - 2, Len(str)) = <<".", "a", "b">>

\* str.replace(/\.ab$/, '')
StripAb(str) == IF EndsWithAb(str) THEN SubSeq(str, 1, Len(str) - 3) ELSE str

(***************************************************************************)
(* Key derivation and decryption.  SHA-1 and the AES block encryption are  *)
(* primitives of the platform (crypto.subtle); they are represented by     *)
(* deterministic mixing functions with the primitives' output sizes.       *)
(***************************************************************************)
Sha1Len == 20
BLOCK_SIZE == 16

\* a checksum of a byte buffer: the position-weighted sum of its bytes
Mix(data, seed) ==
    IF data = <<>> THEN seed
    ELSE (seed + BagCardinality([i \in 1..Len(data) |-> (data[i] + 1) * (i + 30)])) % 65521

\* crypto.subtle.digest('SHA-1', buf): 20 bytes determined by the input
digestSha1(data) ==
    LET h == Mix(data, 7 + Len(data))
    IN  SubSeq([j \in 1..Sha1Len |-> (h * (j + 16) + j * j + (h \div 256)) % 256],
               1, Sha1Len)

\* ten applications of digestSha1
HashTen(hash) ==
    LET f[i \in 0..10] ==
            IF i = 0 THEN hash
            ELSE LET prev == f[i - 1]
                 IN  IF Len(prev) = Sha1Len THEN digestSha1(prev) ELSE prev
    IN  f[10]

\* for (let i = 0; i < n; i++) hash = await digestSha1(hash), run in rounds
\* of ten and a remainder to keep the evaluation shallow
HashTimes(hash, n) ==
    LET tens[i \in 0..(n \div 10)] ==
            IF i = 0 THEN hash
            ELSE LET prev == tens[i - 1]
                 IN  IF Len(prev) = Sha1Len THEN HashTen(prev) ELSE prev
        rest[i \in 0..(n % 10)] ==
            IF i = 0 THEN tens[n \div 10] ELSE digestSha1(rest[i - 1])
    IN  IF n <= 0 THEN hash ELSE rest[n % 10]

\* while (hashder.length < keyLen) { hashder = [...hashder, ...SHA1([index + 48, ...hash])]; index++ }
\* (the loop runs at most keyLen \div Sha1Len + 1 times)
ExtendKey(hashder, hash, index, keyLen) ==
    LET ext[i \in 0..((keyLen \div Sha1Len) + 1)] ==
            IF i = 0 THEN hashder
            ELSE IF Len(ext[i - 1]) < keyLen
                 THEN ext[i - 1] \o digestSha1(<<(index + i - 1 + 48) % 256>> \o hash)
                 ELSE ext[i - 1]
    IN  ext[(keyLen \div Sha1Len) + 1]

getKeyPbkdf1(pwdBytes, salt, keyLen, countParam) ==
    LET count == countParam - 1
        hash0 == digestSha1(pwdBytes \o salt)
        hash == HashTimes(hash0, count - 1)
        hashder == ExtendKey(digestSha1(hash), hash, 1, keyLen)
    IN  SubSeq(hashder, 1, keyLen)

\* new DataView(counterBlock.buffer).setBigUint64(0, counter, true): the
\* counter's eight bytes, lowest first, then eight zero bytes
CounterBlockBigEndian(counter) ==
    [k \in 1..BLOCK_SIZE |->
        CASE k = 8 -> counter % 256
          [] k = 7 -> (counter \div 256) % 256
          [] k = 6 -> (counter \div 65536) % 256
          [] k = 5 -> (counter \div 16777216) % 256
          [] OTHER -> 0]
CounterBlock(counter) ==
    [k \in 1..BLOCK_SIZE |->
        CASE k = 1 -> counter % 256
          [] k = 2 -> (counter \div 256) % 256
          [] k = 3 -> (counter \div 65536) % 256
          [] k = 4 -> (counter \div 16777216) % 256
          [] k \in 5..8 -> 0    \* the counters of the model stay below 2^31
          [] OTHER -> 0]

\* crypto.subtle.encrypt(AES-CBC, zero IV) cut to its first block: the
\* single-block encryption of the counter block under the key
AesEncryptBlock(keyBytes, block) ==
    LET kh == Mix(keyBytes, 11)
        bh == Mix(block, 13)
    IN  [j \in 1..BLOCK_SIZE |->
            (kh * (j + 2) + bh * (2 * j + 1) + (kh % 251) * (bh % 241)) % 256]

decryptAesCtrPbkdf1(data, pwdBytes, salt, keyLen, countParam) ==
    LET keyBytes == getKeyPbkdf1(pwdBytes, salt, keyLen, countParam)
        keystream(blk) == AesEncryptBlock(keyBytes, CounterBlock(1 + blk))
    IN  [p \in 1..Len(data) |->
            Xor8(data[p], keystream((p - 1) \div BLOCK_SIZE)[((p - 1) % BLOCK_SIZE) + 1])]


(***************************************************************************)
(* Files, bundles and objects.                                             *)
(***************************************************************************)
\* bounds of the model
MaxFiles == 2
MaxLoadCalls == 2
MaxClears == 1

NameA == <<"a", ".", "a", "b">>
NameB == <<"b", ".", "a", "b">>
NameC == <<"c">>
FileNames == {NameA, NameB, NameC}

\* raw byte contents of the files offered to the program
Content1 == <<1, 2>>
Content2 == <<4>>
Contents == {Content1, Content2}

\* the files offered: one content under two names, and a second content
Files ==
    {[name |-> NameA, bytes |-> Content1], [name |-> NameB, bytes |-> Content1],
     [name |-> NameC, bytes |-> Content2]}

\* 'System.Byte[]' as TextEncoder encodes it
PasswordBytes == <<83, 121, 115, 116, 101, 109, 46, 66, 121, 116, 101, 91, 93>>
KeyLen == 32
CountParam == 100

\* options.envIndex values offered: 2 selects the manual decryption
EnvIndexes == {0, 2}

\* calcMd5(buffer): a digest without collisions on the buffers of the model
calcMd5(buffer) ==
    LET f[i \in 0..Len(buffer)] == IF i = 0 THEN 0 ELSE f[i - 1] * 257 + buffer[i] + 1
    IN  f[Len(buffer)]

\* AssetType tags of the objects a bundle holds
showAssetType == {"TextAsset", "Sprite", "SpriteAtlas", "Texture2D"}
canExportAssetTypeNoSprite == {"TextAsset", "Texture2D"}
canExportAssetType == {"TextAsset", "Sprite", "Texture2D"}

NoObj == [type |-> "undefined"]
isTextAssetObj(obj) == obj.type = "TextAsset"
isImageAssetObj(obj) == obj.type = "Sprite" \/ obj.type = "Texture2D"

\* what the bundle parser returns for a buffer it accepts: the objects and
\* the container paths are determined by the bytes
BundleA ==
    [objects |-> << [pathId |-> 1, type |-> "TextAsset", name |-> <<"t">>, data |-> <<120, 121>>],
                    [pathId |-> 2, type |-> "Sprite", name |-> <<"a", ":", "b">>, data |-> <<>>],
                    [pathId |-> 3, type |-> "SpriteAtlas", name |-> <<"c">>, data |-> <<>>],
                    [pathId |-> 4, type |-> "Texture2D", name |-> <<"c">>, data |-> <<>>],
                    [pathId |-> 5, type |-> "Mesh", name |-> <<"x">>, data |-> <<>>] >>,
     containerMap |-> (2 :> <<"x", "/", "y">>)]

BundleB ==
    [objects |-> << [pathId |-> 2, type |-> "Texture2D", name |-> <<"b">>, data |-> <<>>],
                    [pathId |-> 5, type |-> "Mesh", name |-> <<"x">>, data |-> <<>>] >>,
     containerMap |-> (2 :> <<"y">>)]

loadAssetBundle(buffer) == IF buffer[1] % 2 = 1 THEN BundleA ELSE BundleB

NoBundle == [objects |-> <<>>, containerMap |-> <<>>]

\* bundle.objectMap.get(pathId)
ObjectOf(bundle, pathId) ==
    LET hit == {k \in 1..Len(bundle.objects) : bundle.objects[k].pathId = pathId}
    IN  IF hit = {} THEN NoObj ELSE bundle.objects[CHOOSE k \in hit : TRUE]

\* `${fileId}_${pathId}`
getAssetKey(fileId, pathId) == <<fileId, pathId>>

CharOf(code) == CHOOSE c \in DOMAIN CharCode : CharCode[c] = code

\* this.textDecoder.decode(obj.data)
TextDecode(bytes) == [k \in 1..Len(bytes) |-> CharOf(bytes[k])]

RECURSIVE SelectSeq2(_, _)
\* array.filter(pred) where pred is given as the set of accepted elements' indexes
SelectSeq2(seq, keep) ==
    IF seq = <<>> THEN <<>>
    ELSE LET rest == SelectSeq2(Tail(seq), {k - 1 : k \in keep \ {1}})
         IN  IF 1 \in keep THEN <<Head(seq)>> \o rest ELSE rest

(***************************************************************************)
(* State.                                                                  *)
(***************************************************************************)
VARIABLES
    bundleMap,    \* AssetManager.bundleMap: md5 -> Bundle
    imageMap,     \* AssetManager.imageMap: key -> id of the tracked promise
    promises,     \* the tracked promises ever created: id -> state and value
    revoked,      \* url -> number of URL.revokeObjectURL calls made for it
    pendingRevoke,\* promises clear() is still awaiting before revoking
    tasks,        \* conversion tasks handed to the ImageConverterPool, not done
    load,         \* the loadFiles calls: caller -> call frame
    call,         \* the getImageUrl / exportAsset calls: caller -> call frame
    exp,          \* the exportAssets calls: caller -> call frame
    epoch,        \* history: number of clear() calls so far
    parseCalls,   \* history: <<md5, epoch>> -> number of parser invocations
    parseFails,   \* history: <<md5, epoch>> -> parser invocations that threw
    decodeCalls,  \* history: <<key, epoch>> -> decodes started by loadImage
    loadCalls,    \* history: number of loadFiles calls so far
    derive,       \* the getKeyPbkdf1 calls: caller -> call frame
    dec,          \* the decryptAesCtrPbkdf1 calls: caller -> call frame
    store         \* the pinia store: isBatchExporting, the progress shown, its calls

vars == <<bundleMap, imageMap, promises, revoked, pendingRevoke, tasks, load,
          call, exp, epoch, parseCalls, parseFails, decodeCalls, loadCalls, derive,
          dec, store>>

LoadCallers == {"L1", "L2"}

Count(f, x) == IF x \in DOMAIN f THEN f[x] ELSE 0
Bump(f, x) == IF x \in DOMAIN f THEN [f EXCEPT ![x] = @ + 1] ELSE f @@ (x :> 1)

NoFile == [name |-> <<>>, bytes |-> <<>>]

IdleLoad ==
    [pc |-> "idle", files |-> <<>>, envIndex |-> 0, i |-> 0, file |-> NoFile,
     md5 |-> 0, result |-> <<>>, errors |-> <<>>, infos |-> <<>>,
     successNum |-> 0, events |-> <<>>, failed |-> {}]

(***************************************************************************)
(* loadFiles / loadFile / getAssetData                                     *)
(***************************************************************************)
\* the argument of onProgress at the top of the loop; progress is the
\* fraction num / den
ProgressEventReversed(name, i, n, infos) ==
    [name |-> name, num |-> (n - i) * 100, den |-> n, totalAssetNum |-> Len(infos)]
ProgressEvent(name, i, n, infos) ==
    [name |-> name, num |-> i * 100, den |-> n, totalAssetNum |-> Len(infos)]

\* the bytes loadFile hashes: the file's own, or the decrypted ones
FileIdOfName(file) == calcMd5(TextEncode(file.name))
FileIdOf(file) == calcMd5(file.bytes)

\* the top of the loop: either the loop is over and loadFiles returns, or
\* onProgress is called for file i + 1 and the file is read, for the manual
\* decryption (envIndex 2 and a name ending in .ab) or for loadFile
LoopTop(l) ==
    IF l.i >= Len(l.files)
    THEN [l EXCEPT !.pc = "done", !.file = NoFile, !.md5 = 0]
    ELSE LET file == l.files[l.i + 1] IN
         [l EXCEPT !.file = file, !.md5 = 0,
                   !.events = Append(@, ProgressEvent(file.name, l.i, Len(l.files), l.infos)),
                   !.pc = IF l.envIndex = 2 /\ EndsWithAb(file.name)
                          THEN "decrypt" ELSE "read"]

\* catch (err) { errors.push({ name: file.name, error: String(err) }) },
\* then the next iteration
CatchAbort(l, err) ==
    [l EXCEPT !.errors = Append(@, [name |-> l.file.name, error |-> err]),
              !.pc = "done", !.file = NoFile, !.md5 = 0]
Catch(l, err) ==
    LoopTop([l EXCEPT !.errors = Append(@, [name |-> l.file.name, error |-> err]),
                      !.i = @ + 1])

\* if (result.length) { successNum++; infos.push(...result) }, then the
\* next iteration
CollectSkipNext(l, result) ==
    LoopTop([l EXCEPT !.successNum = IF Len(result) > 0 THEN @ + 1 ELSE @,
                      !.infos = @ \o result,
                      !.i = @ + 2])
Collect(l, result) ==
    LoopTop([l EXCEPT !.successNum = IF Len(result) > 0 THEN @ + 1 ELSE @,
                      !.infos = @ \o result,
                      !.i = @ + 1])

\* the data field getAssetData computes for an object
getAssetDataAnyEntry(obj, key) ==
    CASE obj.type = "TextAsset" -> [kind |-> "text", text |-> TextDecode(obj.data)]
      [] isImageAssetObj(obj) ->
            IF key \in DOMAIN imageMap
            THEN IF promises[imageMap[key]].value.kind = "image"
                 THEN [kind |-> "url", url |-> promises[imageMap[key]].value.url]
                 ELSE [kind |-> "null"]
            ELSE [kind |-> "undefined"]
      [] OTHER -> [kind |-> "undefined"]
getAssetData(obj, key) ==
    CASE obj.type = "TextAsset" -> [kind |-> "text", text |-> TextDecode(obj.data)]
      [] isImageAssetObj(obj) ->
            IF key \in DOMAIN imageMap /\ promises[imageMap[key]].state = "fulfilled"
            THEN IF promises[imageMap[key]].value.kind = "image"
                 THEN [kind |-> "url", url |-> promises[imageMap[key]].value.url]
                 ELSE [kind |-> "null"]
            ELSE [kind |-> "undefined"]
      [] OTHER -> [kind |-> "undefined"]

\* the AssetInfo array loadFile builds from a bundle (raw and decrypted are
\* history fields: the bytes the file was offered with, and whether loadFiles
\* decrypted them)
ProjectObjects(bundle, fileId, file, raw, decrypted) ==
    LET shown == SelectSeq2(bundle.objects,
                    {k \in 1..Len(bundle.objects) : bundle.objects[k].type \in showAssetType})
    IN  [k \in 1..Len(shown) |->
            LET obj == shown[k]
                key == getAssetKey(fileId, obj.pathId)
            IN  [fileId |-> fileId, fileName |-> file.name, key |-> key,
                 name |-> obj.name,
                 container |-> IF obj.pathId \in DOMAIN bundle.containerMap
                               THEN bundle.containerMap[obj.pathId] ELSE <<>>,
                 type |-> obj.type, pathId |-> obj.pathId,
                 data |-> getAssetData(obj, key),
                 raw |-> raw, decrypted |-> decrypted]]

\* manager.loadFiles(files, options, onProgress) is called; the job runs
\* to the first await of the first iteration
LoadFilesCall(c, files, envIndex) ==
    /\ load[c].pc \in {"idle", "done"}
    /\ loadCalls < MaxLoadCalls
    /\ loadCalls' = loadCalls + 1
    /\ load' = [load EXCEPT ![c] =
                    LoopTop([IdleLoad EXCEPT !.files = files, !.envIndex = envIndex])]
    /\ UNCHANGED <<bundleMap, imageMap, promises, revoked, pendingRevoke, tasks,
                   call, exp, epoch, parseCalls, parseFails, decodeCalls, derive, dec, store>>

\* the decrypted copy of every file the model offers (a constant table)
Decrypted ==
    [f \in Files |->
        decryptAesCtrPbkdf1(f.bytes, PasswordBytes, TextEncode(StripAb(f.name)),
                            KeyLen, CountParam)]

\* the manual decryption ends: the file is replaced by its decrypted copy
\* and handed to loadFile, or a primitive failed and the error is caught
LoadFilesDecrypt(c, ok) ==
    LET l == load[c] IN
    /\ l.pc = "decrypt"
    /\ load' = [load EXCEPT ![c] =
                    IF ok
                    THEN [l EXCEPT !.file = [name |-> l.file.name, bytes |-> Decrypted[l.file]],
                                   !.pc = "read"]
                    ELSE [Catch(l, "DecryptionError") EXCEPT !.failed = @ \cup {l.i + 1}]]
    /\ UNCHANGED <<bundleMap, imageMap, promises, revoked, pendingRevoke, tasks,
                   call, exp, epoch, parseCalls, parseFails, decodeCalls, loadCalls, derive, dec, store>>

\* loadFile after `await file.arrayBuffer()`: hash and cache lookup; on a
\* hit the stored bundle is projected, on a miss the parser is invoked
LoadFileRead(c) ==
    LET l == load[c]
        md5 == FileIdOf(l.file)
        orig == l.files[l.i + 1]
    IN
    /\ l.pc = "read"
    /\ IF md5 \in DOMAIN bundleMap
       THEN /\ load' = [load EXCEPT ![c] =
                    [l EXCEPT !.md5 = md5, !.pc = "collect",
                              !.result = ProjectObjects(bundleMap[md5], md5, l.file,
                                              orig.bytes, l.envIndex = 2 /\ EndsWithAb(orig.name))]]
            /\ UNCHANGED parseCalls
       ELSE /\ load' = [load EXCEPT ![c] = [l EXCEPT !.md5 = md5, !.pc = "parse"]]
            /\ parseCalls' = Bump(parseCalls, <<md5, epoch>>)
    /\ UNCHANGED <<bundleMap, imageMap, promises, revoked, pendingRevoke, tasks,
                   call, exp, epoch, parseFails, decodeCalls, loadCalls, derive, dec, store>>

\* the parser returns (ok) or throws: the bundle is stored unless one is
\* stored by now, and its objects are projected; a throw is caught
LoadFileParsed(c, ok) ==
    LET l == load[c]
        orig == l.files[l.i + 1]
        bundle == loadAssetBundle(l.file.bytes)
    IN
    /\ l.pc = "parse"
    /\ IF ok
       THEN /\ bundleMap' = IF l.md5 \in DOMAIN bundleMap THEN bundleMap
                            ELSE bundleMap @@ (l.md5 :> bundle)
            /\ load' = [load EXCEPT ![c] =
                    [l EXCEPT !.pc = "collect",
                              !.result = ProjectObjects(bundle, l.md5, l.file,
                                              orig.bytes, l.envIndex = 2 /\ EndsWithAb(orig.name))]]
            /\ UNCHANGED parseFails
       ELSE /\ load' = [load EXCEPT ![c] =
                    [Catch(l, "ParseError") EXCEPT !.failed = @ \cup {l.i + 1}]]
            /\ parseFails' = Bump(parseFails, <<l.md5, epoch>>)
            /\ UNCHANGED bundleMap
    /\ UNCHANGED <<imageMap, promises, revoked, pendingRevoke, tasks,
                   call, exp, epoch, parseCalls, decodeCalls, loadCalls, derive, dec, store>>

\* loadFile's Promise.all resolved: the infos are counted and collected and
\* the loop goes on
LoadFilesCollect(c) ==
    LET l == load[c] IN
    /\ l.pc = "collect"
    /\ load' = [load EXCEPT ![c] = Collect([l EXCEPT !.result = <<>>], l.result)]
    /\ UNCHANGED <<bundleMap, imageMap, promises, revoked, pendingRevoke, tasks,
                   call, exp, epoch, parseCalls, parseFails, decodeCalls, loadCalls, derive, dec, store>>

(***************************************************************************)
(* clear                                                                   *)
(***************************************************************************)
MaxPromises == 3

Undefined == [kind |-> "undefined"]

\* URL.revokeObjectURL(url) for every url of the set
RevokeAll(urls) ==
    [u \in DOMAIN revoked \cup urls |-> Count(revoked, u) + (IF u \in urls THEN 1 ELSE 0)]

\* clear(): both maps are emptied; the url of every image entry is revoked
\* once the entry's promise has resolved
ClearForgetPending ==
    LET ids == {imageMap[k] : k \in DOMAIN imageMap}
        settled == {p \in ids : promises[p].state = "fulfilled"}
    IN
    /\ epoch' = epoch + 1
    /\ bundleMap' = <<>>
    /\ imageMap' = <<>>
    /\ revoked' = RevokeAll({promises[p].value.url : p \in {q \in settled : promises[q].value.kind = "image"}})
    /\ UNCHANGED <<promises, pendingRevoke, tasks, load, call, exp, parseCalls, parseFails,
                   decodeCalls, loadCalls, derive, dec, store>>
ClearKeepImages ==
    /\ epoch' = epoch + 1
    /\ bundleMap' = <<>>
    /\ UNCHANGED <<imageMap, promises, revoked, pendingRevoke, tasks, load, call, exp,
                   parseCalls, parseFails, decodeCalls, loadCalls, derive, dec, store>>
Clear ==
    LET ids == {imageMap[k] : k \in DOMAIN imageMap}
        settled == {p \in ids : promises[p].state = "fulfilled"}
    IN
    /\ epoch' = epoch + 1
    /\ bundleMap' = <<>>
    /\ imageMap' = <<>>
    /\ revoked' = RevokeAll({promises[p].value.url : p \in {q \in settled : promises[q].value.kind = "image"}})
    /\ pendingRevoke' = pendingRevoke \cup (ids \ settled)
    /\ UNCHANGED <<promises, tasks, load, call, exp, parseCalls, parseFails, decodeCalls, loadCalls, derive, dec, store>>

(***************************************************************************)
(* getImageUrl / exportAsset / loadImage / getAssetObjPNG                  *)
(***************************************************************************)
Callers == {"G1", "G2"}

IdleCall ==
    [pc |-> "idle", op |-> "none", key |-> <<0, 0>>, obj |-> NoObj, promise |-> 0,
     epoch |-> 0, result |-> Undefined]

\* this.bundleMap.get(fileId)?.objectMap.get(pathId)
getAssetObj(fileId, pathId) ==
    IF fileId \in DOMAIN bundleMap THEN ObjectOf(bundleMap[fileId], pathId) ELSE NoObj

\* this.imageMap.has(key), the test that lets a request join an entry
ImageMapHasSettled(key) ==
    key \in DOMAIN imageMap /\ promises[imageMap[key]].state = "fulfilled"
ImageMapHas(key) == key \in DOMAIN imageMap

\* name.replace(/[/\\:*?"<>|]/g, '')
getLegalFileName(name) ==
    SelectSeq2(name, {k \in 1..Len(name) :
                        name[k] \notin {"/", "\\", ":", "*", "?", "\"", "<", ">", "|"}})

\* the PNG an object's bitmap converts to
PngOf(key) == <<"png", key[1], key[2]>>

\* getAssetObjPNG without a bitmap: `if (!bitmap) return`, which settles the
\* promise of loadImage to undefined
NoBitmapOutcomeRejected == [state |-> "rejected", value |-> Undefined]
NoBitmapOutcome == [state |-> "fulfilled", value |-> Undefined]

\* the store's loadImage: assetInfo.data = img ?? null
StoreData(result) == IF result.kind = "url" THEN result ELSE [kind |-> "null"]

\* loadImage(fileId, pathId) called for caller g, which then awaits the
\* returned promise.  bitmapOk: obj.getImageBitmap() returned a bitmap.
\* A new promise is published in imageMap in the same job that starts its
\* decode.
LoadImage(g, frame, fileId, pathId, bitmapOk) ==
    LET key == getAssetKey(fileId, pathId)
        obj == getAssetObj(fileId, pathId)
        p == Len(promises) + 1
    IN
    IF ImageMapHas(key)
    THEN /\ call' = [call EXCEPT ![g] = [frame EXCEPT !.pc = "wait", !.promise = imageMap[key]]]
         /\ UNCHANGED <<imageMap, promises, tasks, decodeCalls>>
    ELSE IF ~(obj.type = "Sprite" \/ obj.type = "Texture2D")
    THEN /\ call' = [call EXCEPT ![g] = [frame EXCEPT !.pc = "done", !.result = Undefined]]
         /\ UNCHANGED <<imageMap, promises, tasks, decodeCalls>>
    ELSE /\ Len(promises) < MaxPromises
         /\ decodeCalls' = Bump(decodeCalls, <<key, epoch>>)
         /\ promises' = Append(promises,
                IF bitmapOk THEN [state |-> "pending", value |-> Undefined]
                ELSE NoBitmapOutcome)
         /\ tasks' = IF bitmapOk
                     THEN tasks \cup {[kind |-> "image", owner |-> p, key |-> key]}
                     ELSE tasks
         /\ imageMap' = IF key \in DOMAIN imageMap
                        THEN [imageMap EXCEPT ![key] = p]
                        ELSE imageMap @@ (key :> p)
         /\ call' = [call EXCEPT ![g] = [frame EXCEPT !.pc = "wait", !.promise = p]]

\* manager.getImageUrl(fileId, pathId) is called
GetImageUrlCall(g, fileId, pathId, bitmapOk) ==
    /\ call[g].pc \in {"idle", "done"}
    /\ LoadImage(g, [IdleCall EXCEPT !.op = "getImageUrl",
                                     !.key = getAssetKey(fileId, pathId),
                                     !.obj = getAssetObj(fileId, pathId),
                                     !.epoch = epoch],
                 fileId, pathId, bitmapOk)
    /\ UNCHANGED <<bundleMap, revoked, pendingRevoke, load, exp, epoch, parseCalls, parseFails, loadCalls, derive, dec, store>>

\* manager.exportAsset(fileId, pathId) is called
ExportAssetCall(g, fileId, pathId, bitmapOk) ==
    LET obj == getAssetObj(fileId, pathId)
        frame == [IdleCall EXCEPT !.op = "exportAsset",
                                  !.key = getAssetKey(fileId, pathId),
                                  !.obj = obj, !.epoch = epoch]
    IN
    /\ call[g].pc \in {"idle", "done"}
    /\ IF obj = NoObj \/ obj.type \notin canExportAssetType
       THEN /\ call' = [call EXCEPT ![g] = [frame EXCEPT !.pc = "done", !.result = Undefined]]
            /\ UNCHANGED <<imageMap, promises, tasks, decodeCalls>>
       ELSE IF obj.type = "TextAsset"
       THEN /\ call' = [call EXCEPT ![g] =
                    [frame EXCEPT !.pc = "done",
                                  !.result = [kind |-> "file",
                                              name |-> getLegalFileName(obj.name) \o <<".", "txt">>,
                                              type |-> "text/plain", data |-> obj.data]]]
            /\ UNCHANGED <<imageMap, promises, tasks, decodeCalls>>
       ELSE LoadImage(g, frame, fileId, pathId, bitmapOk)
    /\ UNCHANGED <<bundleMap, revoked, pendingRevoke, load, exp, epoch, parseCalls, parseFails, loadCalls, derive, dec, store>>

\* the awaited promise has resolved: the call returns
CallReturn(g) ==
    LET f == call[g]
        v == promises[f.promise].value
    IN
    /\ f.pc = "wait"
    /\ promises[f.promise].state = "fulfilled"
    /\ call' = [call EXCEPT ![g] =
            [f EXCEPT !.pc = "done",
                      !.result =
                        IF v.kind # "image" THEN Undefined
                        ELSE IF f.op = "getImageUrl" THEN [kind |-> "url", url |-> v.url]
                        ELSE [kind |-> "file",
                              name |-> getLegalFileName(f.obj.name) \o <<".", "png">>,
                              type |-> "image/png", data |-> v.blob]]]
    /\ UNCHANGED <<bundleMap, imageMap, promises, revoked, pendingRevoke, tasks, load,
                   exp, epoch, parseCalls, parseFails, decodeCalls, loadCalls, derive, dec, store>>

(***************************************************************************)
(* exportAssets                                                            *)
(***************************************************************************)
Exporters == {"E1"}
GroupMethods == {"NONE", "TYPE_NAME", "SOURCE_FILE_NAME", "CONTAINER_PATH"}

IdleExp ==
    [pc |-> "idle", groupMethod |-> "NONE", objMap |-> <<>>, order |-> <<>>,
     imgData |-> <<>>, imgBitmaps |-> <<>>, total |-> 0, complete |-> 0,
     zip |-> <<>>, events |-> <<>>, zipFault |-> FALSE, params |-> <<>>,
     result |-> Undefined, prepareAt |-> <<>>]

ParamKey(param) == getAssetKey(param.fileId, param.pathId)

\* the keys of new Map(params.map(...)) in insertion order: a key keeps the
\* place of its first selection
MapOrder(params) ==
    LET keys == [k \in 1..Len(params) |-> ParamKey(params[k])]
    IN  SelectSeq2(keys, {k \in 1..Len(keys) : \A j \in 1..(k - 1) : keys[j] # keys[k]})

\* ... and its values: a key holds the data of its last selection
MapValues(params) ==
    LET keys == {ParamKey(params[k]) : k \in 1..Len(params)}
    IN  [key \in keys |->
            LET last == CHOOSE k \in 1..Len(params) :
                            /\ ParamKey(params[k]) = key
                            /\ \A j \in (k + 1)..Len(params) : ParamKey(params[j]) # key
            IN  [key |-> key, fileName |-> params[last].fileName,
                 container |-> params[last].container,
                 obj |-> getAssetObj(params[last].fileId, params[last].pathId)]]

\* the path of an object inside the archive; a CONTAINER_PATH selection
\* without a container falls through to the NONE case
getObjPathNoFallThrough(objMap, groupMethod, key, ext) ==
    IF key \notin DOMAIN objMap \/ objMap[key].obj = NoObj THEN <<>>
    ELSE LET data == objMap[key]
             legalName == getLegalFileName(data.obj.name)
         IN  CASE groupMethod = "CONTAINER_PATH" -> data.container
               [] groupMethod = "NONE" -> legalName \o <<".", ext>>
               [] groupMethod = "TYPE_NAME" -> <<data.obj.type, "/">> \o legalName \o <<".", ext>>
               [] groupMethod = "SOURCE_FILE_NAME" ->
                      data.fileName \o <<"/">> \o legalName \o <<".", ext>>
getObjPath(objMap, groupMethod, key, ext) ==
    IF key \notin DOMAIN objMap \/ objMap[key].obj = NoObj THEN <<>>
    ELSE LET data == objMap[key]
             legalName == getLegalFileName(data.obj.name)
         IN  CASE groupMethod = "CONTAINER_PATH" ->
                      IF data.container # <<>> THEN data.container
                      ELSE legalName \o <<".", ext>>
               [] groupMethod = "NONE" -> legalName \o <<".", ext>>
               [] groupMethod = "TYPE_NAME" -> <<data.obj.type, "/">> \o legalName \o <<".", ext>>
               [] groupMethod = "SOURCE_FILE_NAME" ->
                      data.fileName \o <<"/">> \o legalName \o <<".", ext>>

\* zip.add({ name, data }): a later entry of the same name replaces the earlier
ZipAdd(zip, name, key, data) ==
    [n \in DOMAIN zip \cup {name} |->
        IF n = name THEN [key |-> key, data |-> data] ELSE zip[n]]

RECURSIVE ZipAddAll(_, _)
ZipAddAll(zip, entries) ==
    IF entries = <<>> THEN zip
    ELSE ZipAddAll(ZipAdd(zip, Head(entries).name, Head(entries).key, Head(entries).data),
                   Tail(entries))

ExportEvent(type, num, den) == [type |-> type, num |-> num, den |-> den]

\* the text objects of the selection go into the archive as one progress step
AddTexts(x) ==
    LET textKeys == SelectSeq2(x.order, {k \in 1..Len(x.order) : isTextAssetObj(x.objMap[x.order[k]].obj)})
    IN  IF textKeys = <<>> THEN x
        ELSE [x EXCEPT
                !.zip = ZipAddAll(@, [k \in 1..Len(textKeys) |->
                            [name |-> getObjPath(x.objMap, x.groupMethod, textKeys[k], "txt"),
                             key |-> textKeys[k],
                             data |-> x.objMap[textKeys[k]].obj.data]]),
                !.complete = @ + 1,
                !.events = Append(@, ExportEvent("exportAsset", (x.complete + 1) * 100, x.total))]

\* the frame of an exportAssets call that waits for the Zip object
ExportAssetsStart(params, groupMethod) ==
    [IdleExp EXCEPT !.pc = "init", !.params = params, !.groupMethod = groupMethod]

\* manager.exportAssets(params, { groupMethod }, onProgress) is called: the
\* Zip object of the zip worker is requested (each exporter of the model
\* makes one call)
ExportAssetsCall(e, params, groupMethod) ==
    /\ exp[e].pc = "idle"
    /\ exp' = [exp EXCEPT ![e] = ExportAssetsStart(params, groupMethod)]
    /\ UNCHANGED <<bundleMap, imageMap, promises, revoked, pendingRevoke, tasks, load,
                   call, epoch, parseCalls, parseFails, decodeCalls, loadCalls, derive, dec, store>>

\* what the preparing loop does with one image object: a settled image of
\* the cache is taken as it is, otherwise the object's bitmap, when it has
\* one, is queued for conversion
PrepareKindThrowing(key, bitmapOk) ==
    IF key \in DOMAIN imageMap
       /\ promises[imageMap[key]].state = "fulfilled"
       /\ promises[imageMap[key]].value.kind = "image"
    THEN "cached"
    ELSE IF bitmapOk THEN "convert" ELSE "throw"
PrepareKind(key, bitmapOk) ==
    IF key \in DOMAIN imageMap
       /\ promises[imageMap[key]].state = "fulfilled"
       /\ promises[imageMap[key]].value.kind = "image"
    THEN "cached"
    ELSE IF bitmapOk THEN "convert" ELSE "skip"

\* updatePrepareProgress: `if (now - lastPrepareUpdateTs < 50) return`
PrepareInterval == 50
ThrottledNever(now, last) == FALSE
Throttled(now, last) == now - last < PrepareInterval

\* the iterations of the preparing loop that emit an event, given what
\* Date.now() returns in each; lastPrepareUpdateTs starts at 0
PrepareUpdates(times) ==
    LET last[k \in 0..Len(times)] ==
            IF k = 0 THEN 0
            ELSE IF Throttled(times[k], last[k - 1]) THEN last[k - 1] ELSE times[k]
    IN  {k \in 1..Len(times) : ~Throttled(times[k], last[k - 1])}

\* the Zip object arrived (or the zip worker failed): the selection is
\* resolved against the bundles, the image objects are partitioned, the
\* conversion batch is submitted, and without cached images the texts are
\* added.  bitmaps: the keys whose getImageBitmap() returns a bitmap;
\* times: the value Date.now() returns in each iteration of the loop.
ExportPrepare(e, zipOk, bitmaps, times) ==
    LET x == exp[e]
        objMap == MapValues(x.params)
        order == MapOrder(x.params)
        imgKeys == SelectSeq2(order, {k \in 1..Len(order) : isImageAssetObj(objMap[order[k]].obj)})
        kind == [k \in 1..Len(imgKeys) |-> PrepareKind(imgKeys[k], imgKeys[k] \in bitmaps)]
        cached == SelectSeq2(imgKeys, {k \in 1..Len(imgKeys) : kind[k] = "cached"})
        convert == SelectSeq2(imgKeys, {k \in 1..Len(imgKeys) : kind[k] = "convert"})
        hasText == \E k \in 1..Len(order) : isTextAssetObj(objMap[order[k]].obj)
        shown == PrepareUpdates(times)
        shownAt == SelectSeq2([k \in 1..Len(imgKeys) |-> k - 1], shown)
        x1 == [x EXCEPT
                !.objMap = objMap, !.order = order,
                !.imgData = [k \in 1..Len(cached) |->
                                [key |-> cached[k], blob |-> promises[imageMap[cached[k]]].value.blob]],
                !.imgBitmaps = convert,
                !.total = Len(cached) + Len(convert) + (IF hasText THEN 1 ELSE 0),
                !.complete = 0,
                !.events = [k \in 1..Len(shownAt) |->
                                ExportEvent("exportPreparing", shownAt[k] * 100, Len(imgKeys))],
                !.prepareAt = SelectSeq2(times, shown)]
    IN
    /\ x.pc = "init"
    /\ bitmaps \subseteq {imgKeys[k] : k \in 1..Len(imgKeys)}
    /\ Len(times) = Len(imgKeys)
    /\ IF ~zipOk
       THEN /\ exp' = [exp EXCEPT ![e] = [x EXCEPT !.pc = "rejected", !.zipFault = TRUE]]
            /\ UNCHANGED tasks
       ELSE IF \E k \in 1..Len(imgKeys) : kind[k] = "throw"
       THEN /\ exp' = [exp EXCEPT ![e] = [x EXCEPT !.pc = "rejected"]]
            /\ UNCHANGED tasks
       ELSE /\ tasks' = tasks \cup {[kind |-> "export", owner |-> e, key |-> convert[k]] :
                                        k \in 1..Len(convert)}
            /\ exp' = [exp EXCEPT ![e] =
                    IF cached # <<>> THEN [x1 EXCEPT !.pc = "cached"]
                    ELSE [AddTexts(x1) EXCEPT !.pc = "converting"]]
    /\ UNCHANGED <<bundleMap, imageMap, promises, revoked, pendingRevoke, load,
                   call, epoch, parseCalls, parseFails, decodeCalls, loadCalls, derive, dec, store>>

\* the buffers of the cached images arrived: they go into the archive, then
\* the texts
ExportCachedAssign(e) ==
    LET x == exp[e]
        x1 == [x EXCEPT
                !.zip = ZipAddAll(@, [k \in 1..Len(x.imgData) |->
                            [name |-> getObjPath(x.objMap, x.groupMethod, x.imgData[k].key, "png"),
                             key |-> x.imgData[k].key,
                             data |-> x.imgData[k].blob]]),
                !.complete = Len(x.imgData),
                !.events = Append(@, ExportEvent("exportAsset",
                                        Len(x.imgData) * 100, x.total))]
    IN
    /\ x.pc = "cached"
    /\ exp' = [exp EXCEPT ![e] = [AddTexts(x1) EXCEPT !.pc = "converting"]]
    /\ UNCHANGED <<bundleMap, imageMap, promises, revoked, pendingRevoke, tasks, load,
                   call, epoch, parseCalls, parseFails, decodeCalls, loadCalls, derive, dec, store>>
ExportCached(e) ==
    LET x == exp[e]
        x1 == [x EXCEPT
                !.zip = ZipAddAll(@, [k \in 1..Len(x.imgData) |->
                            [name |-> getObjPath(x.objMap, x.groupMethod, x.imgData[k].key, "png"),
                             key |-> x.imgData[k].key,
                             data |-> x.imgData[k].blob]]),
                !.complete = @ + Len(x.imgData),
                !.events = Append(@, ExportEvent("exportAsset",
                                        (x.complete + Len(x.imgData)) * 100, x.total))]
    IN
    /\ x.pc = "cached"
    /\ exp' = [exp EXCEPT ![e] = [AddTexts(x1) EXCEPT !.pc = "converting"]]
    /\ UNCHANGED <<bundleMap, imageMap, promises, revoked, pendingRevoke, tasks, load,
                   call, epoch, parseCalls, parseFails, decodeCalls, loadCalls, derive, dec, store>>

\* imageConvertPromise resolved (every task of the batch has called back, or
\* there was no batch): zip.generate is called
ExportGenerateNoWait(e) ==
    LET x == exp[e] IN
    /\ x.pc = "converting"
    /\ exp' = [exp EXCEPT ![e] = [x EXCEPT !.pc = "zipping"]]
    /\ UNCHANGED <<bundleMap, imageMap, promises, revoked, pendingRevoke, tasks, load,
                   call, epoch, parseCalls, parseFails, decodeCalls, loadCalls, derive, dec, store>>
ExportGenerate(e) ==
    LET x == exp[e] IN
    /\ x.pc = "converting"
    /\ \A t \in tasks : ~(t.kind = "export" /\ t.owner = e)
    /\ exp' = [exp EXCEPT ![e] = [x EXCEPT !.pc = "zipping"]]
    /\ UNCHANGED <<bundleMap, imageMap, promises, revoked, pendingRevoke, tasks, load,
                   call, epoch, parseCalls, parseFails, decodeCalls, loadCalls, derive, dec, store>>

\* zip.generate returns the archive, or the zip worker fails
ExportZipDone(e, ok) ==
    LET x == exp[e] IN
    /\ x.pc = "zipping"
    /\ exp' = [exp EXCEPT ![e] =
            IF ok
            THEN [x EXCEPT !.pc = "done",
                           !.events = Append(@, ExportEvent("exportZip", 100, 1)),
                           !.result = [kind |-> "archive", entries |-> x.zip]]
            ELSE [x EXCEPT !.pc = "rejected", !.zipFault = TRUE]]
    /\ UNCHANGED <<bundleMap, imageMap, promises, revoked, pendingRevoke, tasks, load,
                   call, epoch, parseCalls, parseFails, decodeCalls, loadCalls, derive, dec, store>>

\* the OnUpdateCallback of zip.generate: the archive writer reports its
\* percent, which does not go down, and the call forwards it as exportZip
MaxZipEvents == 2
ZipPercents == {0, 50, 100}
ExportZipProgress(e, percent) ==
    LET x == exp[e]
        zipEvents == SelectSeq2(x.events,
                        {k \in 1..Len(x.events) : x.events[k].type = "exportZip"})
    IN
    /\ x.pc = "zipping"
    /\ Len(zipEvents) < MaxZipEvents
    /\ \A k \in 1..Len(zipEvents) : zipEvents[k].num <= percent
    /\ exp' = [exp EXCEPT ![e] =
            [x EXCEPT !.events = Append(@, ExportEvent("exportZip", percent, 1))]]
    /\ UNCHANGED <<bundleMap, imageMap, promises, revoked, pendingRevoke, tasks, load,
                   call, epoch, parseCalls, parseFails, decodeCalls, loadCalls, derive,
                   dec, store>>

(***************************************************************************)
(* ImageConverterPool.addTasks: a conversion task completes and its        *)
(* callback runs; a failed encode calls back with no data                  *)
(***************************************************************************)
PoolCompleteDropFailed(t, ok) ==
    /\ t \in tasks
    /\ tasks' = tasks \ {t}
    /\ IF ~ok
       THEN UNCHANGED <<promises, revoked, pendingRevoke, exp>>
       ELSE IF t.kind = "image"
       THEN LET p == t.owner
                value == [kind |-> "image", url |-> p, blob |-> PngOf(t.key)]
            IN  /\ promises' = [promises EXCEPT ![p] = [state |-> "fulfilled", value |-> value]]
                /\ revoked' = IF p \in pendingRevoke THEN RevokeAll({p}) ELSE revoked
                /\ pendingRevoke' = pendingRevoke \ {p}
                /\ UNCHANGED exp
       ELSE LET x == exp[t.owner] IN
            /\ exp' = [exp EXCEPT ![t.owner] =
                    [x EXCEPT
                        !.zip = ZipAdd(@, getObjPath(x.objMap, x.groupMethod, t.key, "png"),
                                       t.key, PngOf(t.key)),
                        !.complete = @ + 1,
                        !.events = Append(@, ExportEvent("exportAsset",
                                                (x.complete + 1) * 100, x.total))]]
            /\ UNCHANGED <<promises, revoked, pendingRevoke>>
    /\ UNCHANGED <<bundleMap, imageMap, load, call, epoch, parseCalls, parseFails,
                   decodeCalls, loadCalls, derive, dec, store>>
PoolComplete(t, ok) ==
    /\ t \in tasks
    /\ tasks' = tasks \ {t}
    /\ IF t.kind = "image"
       THEN LET p == t.owner
                value == IF ok THEN [kind |-> "image", url |-> p, blob |-> PngOf(t.key)]
                         ELSE Undefined
            IN  /\ promises' = [promises EXCEPT ![p] = [state |-> "fulfilled", value |-> value]]
                /\ revoked' = IF p \in pendingRevoke /\ ok THEN RevokeAll({p}) ELSE revoked
                /\ pendingRevoke' = pendingRevoke \ {p}
                /\ UNCHANGED exp
       ELSE LET x == exp[t.owner] IN
            /\ exp' = [exp EXCEPT ![t.owner] =
                    [x EXCEPT
                        !.zip = ZipAdd(@, getObjPath(x.objMap, x.groupMethod, t.key, "png"),
                                       t.key, IF ok THEN PngOf(t.key) ELSE <<>>),
                        !.complete = @ + 1,
                        !.events = Append(@, ExportEvent("exportAsset",
                                                (x.complete + 1) * 100, x.total))]]
            /\ UNCHANGED <<promises, revoked, pendingRevoke>>
    /\ UNCHANGED <<bundleMap, imageMap, load, call, epoch, parseCalls, parseFails, decodeCalls, loadCalls, derive, dec, store>>

(***************************************************************************)
(* The store: batchExportAsset and batchExportOnProgress.  A progress      *)
(* value is a fraction num / den; den = 0 stands for no value.             *)
(***************************************************************************)
StoreCallers == {"B1", "B2"}

NoValue == [num |-> 0, den |-> 0]
NoProgress == [type |-> "none", value |-> NoValue]

\* history fields of a call: shown, the values it made the store show;
\* skipped, whether the caller was turned away before; seen, the events of
\* its exportAssets call delivered so far
IdleBatch ==
    [pc |-> "idle", seen |-> 0, shown |-> <<>>, skipped |-> FALSE, outcome |-> "none"]

IdleStore ==
    [isBatchExporting |-> FALSE, progress |-> NoProgress,
     calls |-> [b \in StoreCallers |-> IdleBatch]]

\* `if (isBatchExporting.value) return`
AlreadyExportingIgnored == FALSE
AlreadyExporting == store.isBatchExporting

\* data.value of batchExportOnProgress for an event whose percent is
\* num / den: percent * 0.45, 45 + percent * 0.5, 95 + percent * 0.05
ProgressValueNoOffset(ev) ==
    CASE ev.type = "exportPreparing" -> [num |-> 45 * ev.num, den |-> 100 * ev.den]
      [] ev.type = "exportAsset" -> [num |-> 50 * ev.num, den |-> 100 * ev.den]
      [] ev.type = "exportZip" -> [num |-> 5 * ev.num, den |-> 100 * ev.den]
ProgressValue(ev) ==
    CASE ev.type = "exportPreparing" -> [num |-> 45 * ev.num, den |-> 100 * ev.den]
      [] ev.type = "exportAsset" ->
            [num |-> 4500 * ev.den + 50 * ev.num, den |-> 100 * ev.den]
      [] ev.type = "exportZip" ->
            [num |-> 9500 * ev.den + 5 * ev.num, den |-> 100 * ev.den]

\* batchExportAsset(infos) is called: it returns when an export is running;
\* otherwise it sets the flag, shows 'Preparing' and calls exportAssets
BatchExportAsset(b, infos, groupMethod) ==
    LET c == store.calls[b] IN
    /\ c.pc = "idle"
    /\ exp[b].pc = "idle"
    /\ IF AlreadyExporting
       THEN /\ store' = [store EXCEPT !.calls[b].skipped = TRUE]
            /\ UNCHANGED exp
       ELSE /\ store' = [store EXCEPT !.isBatchExporting = TRUE,
                                      !.progress.type = "export",
                                      !.calls[b].pc = "exporting"]
            /\ exp' = [exp EXCEPT ![b] = ExportAssetsStart(infos, groupMethod)]
    /\ UNCHANGED <<bundleMap, imageMap, promises, revoked, pendingRevoke, tasks, load,
                   call, epoch, parseCalls, parseFails, decodeCalls, loadCalls, derive,
                   dec>>

\* the next progress event of the call's exportAssets arrives at
\* batchExportOnProgress
BatchExportOnProgress(b) ==
    LET c == store.calls[b]
        value == ProgressValue(exp[b].events[c.seen + 1])
    IN
    /\ c.pc = "exporting"
    /\ c.seen < Len(exp[b].events)
    /\ store' = [store EXCEPT !.progress.value = value,
                              !.calls[b].seen = @ + 1,
                              !.calls[b].shown = Append(@, value)]
    /\ UNCHANGED <<bundleMap, imageMap, promises, revoked, pendingRevoke, tasks, load,
                   call, exp, epoch, parseCalls, parseFails, decodeCalls, loadCalls,
                   derive, dec>>

\* exportAssets has returned the archive or was rejected, after its events:
\* the archive is saved (saveOk: saveAs does not throw) or the error logged,
\* and the finally block resets the flag and clears the progress
BatchExportSettled(b, saveOk) ==
    LET c == store.calls[b]
        resolved == exp[b].pc = "done"
    IN
    /\ c.pc = "exporting"
    /\ exp[b].pc \in {"done", "rejected"}
    /\ c.seen = Len(exp[b].events)
    /\ store' = [store EXCEPT
            !.isBatchExporting = FALSE,
            !.progress = NoProgress,
            !.calls[b].pc = "done",
            !.calls[b].shown = IF resolved THEN Append(@, [num |-> 100, den |-> 1]) ELSE @,
            !.calls[b].outcome = IF resolved /\ saveOk THEN "saved" ELSE "error"]
    /\ UNCHANGED <<bundleMap, imageMap, promises, revoked, pendingRevoke, tasks, load,
                   call, exp, epoch, parseCalls, parseFails, decodeCalls, loadCalls,
                   derive, dec>>

(***************************************************************************)
(* getKeyPbkdf1, one step per awaited digest                               *)
(***************************************************************************)
DeriveCallers == {"D1", "D2"}

IdleDerive ==
    [pc |-> "idle", pwdBytes |-> <<>>, salt |-> <<>>, keyLen |-> 0, countParam |-> 0,
     i |-> 0, hash |-> <<>>, hashder |-> <<>>, index |-> 1, result |-> <<>>,
     digested |-> <<>>]

\* return hashder.slice(0, keyLen)
DeriveReturnNoSlice(hashder, keyLen) == hashder
DeriveReturn(hashder, keyLen) == SubSeq(hashder, 1, Min(keyLen, Len(hashder)))

\* after a digest of the expansion phase: the loop `while (hashder.length <
\* keyLen)` goes on, or the key is returned
ExtendOrReturn(f, hashder, index) ==
    IF Len(hashder) < f.keyLen
    THEN [f EXCEPT !.pc = "extend", !.hashder = hashder, !.index = index]
    ELSE [f EXCEPT !.pc = "done", !.hashder = hashder, !.index = index,
                   !.result = DeriveReturn(hashder, f.keyLen)]

\* getKeyPbkdf1(password, salt, keyLen, countParam) is called: it runs to the
\* await of the initial digest of password || salt
DeriveCall(d, pwdBytes, salt, keyLen, countParam) ==
    /\ derive[d].pc \in {"idle", "done"}
    /\ derive' = [derive EXCEPT ![d] =
            [IdleDerive EXCEPT !.pc = "initial", !.pwdBytes = pwdBytes, !.salt = salt,
                               !.keyLen = keyLen, !.countParam = countParam]]
    /\ UNCHANGED <<bundleMap, imageMap, promises, revoked, pendingRevoke, tasks, load,
                   call, exp, epoch, parseCalls, parseFails, decodeCalls, loadCalls, dec, store>>

\* new Uint8Array([marker, ...hash]) with marker = index + 48
ExtensionInputFromSeed(f) == <<(f.index + 48) % 256>> \o SubSeq(f.hashder, 1, Sha1Len)
ExtensionInput(f) == <<(f.index + 48) % 256>> \o f.hash

\* the buffer the call is waiting to have digested (digested is a history
\* field: the buffers handed to digestSha1, in order)
DigestInput(f) ==
    CASE f.pc = "initial" -> f.pwdBytes \o f.salt
      [] f.pc = "loop" -> f.hash
      [] f.pc = "hashder" -> f.hash
      [] f.pc = "extend" -> ExtensionInput(f)

\* the awaited digest arrived: the call runs to its next await or returns
DeriveStep(d) ==
    LET f == derive[d]
        count == f.countParam - 1
    IN
    /\ f.pc \in {"initial", "loop", "hashder", "extend"}
    /\ derive' = [derive EXCEPT ![d] =
            LET g == [f EXCEPT !.digested = Append(@, DigestInput(f))]
                digest == digestSha1(DigestInput(f))
            IN
            CASE f.pc = "initial" ->
                    [g EXCEPT !.hash = digest, !.i = 0,
                              !.pc = IF 0 < count - 1 THEN "loop" ELSE "hashder"]
              [] f.pc = "loop" ->
                    [g EXCEPT !.hash = digest, !.i = f.i + 1,
                              !.pc = IF f.i + 1 < count - 1 THEN "loop" ELSE "hashder"]
              [] f.pc = "hashder" -> ExtendOrReturn(g, digest, 1)
              [] f.pc = "extend" -> ExtendOrReturn(g, f.hashder \o digest, f.index + 1)]
    /\ UNCHANGED <<bundleMap, imageMap, promises, revoked, pendingRevoke, tasks, load,
                   call, exp, epoch, parseCalls, parseFails, decodeCalls, loadCalls, dec, store>>

(***************************************************************************)
(* decryptAesCtrPbkdf1, one step per awaited key and keystream block       *)
(***************************************************************************)
DecryptCallers == {"X1"}

\* history fields: blocks, the counter blocks handed to crypto.subtle.encrypt;
\* pass and first, set when the caller decrypts the output of its last call
\* again (pass 2): first is the input of that last call
IdleDecrypt ==
    [pc |-> "idle", data |-> <<>>, pwdBytes |-> <<>>, salt |-> <<>>, keyLen |-> 0,
     countParam |-> 0, keyBytes |-> <<>>, offset |-> 0, counter |-> 1,
     output |-> <<>>, blocks |-> <<>>, pass |-> 1, first |-> <<>>]

\* the block that is encrypted into the keystream of the current iteration
DecryptCounterBlockChained(f) ==
    IF f.offset = 0 THEN CounterBlock(f.counter)
    ELSE [k \in 1..BLOCK_SIZE |-> f.data[f.offset - BLOCK_SIZE + k]]
DecryptCounterBlock(f) == CounterBlock(f.counter)

\* `for (...; offset < data.length; ...)`: the next block is encrypted, or
\* the output is returned
DecryptLoopTop(f) == [f EXCEPT !.pc = IF f.offset < Len(f.data) THEN "block" ELSE "done"]

\* decryptAesCtrPbkdf1(data, password, salt, keyLen, countParam) is called:
\* it runs to the await of getKeyPbkdf1
DecryptCall(x, data, pwdBytes, salt, keyLen, countParam) ==
    /\ dec[x].pc \in {"idle", "done"}
    /\ dec' = [dec EXCEPT ![x] =
            [IdleDecrypt EXCEPT !.pc = "key", !.data = data, !.pwdBytes = pwdBytes,
                                !.salt = salt, !.keyLen = keyLen,
                                !.countParam = countParam]]
    /\ UNCHANGED <<bundleMap, imageMap, promises, revoked, pendingRevoke, tasks, load,
                   call, exp, epoch, parseCalls, parseFails, decodeCalls, loadCalls,
                   derive, store>>

\* the caller hands the bytes its last call returned to decryptAesCtrPbkdf1
\* again, with the same password, salt, key length and count
DecryptAgain(x) ==
    LET f == dec[x] IN
    /\ f.pc = "done" /\ f.pass = 1
    /\ dec' = [dec EXCEPT ![x] =
            [IdleDecrypt EXCEPT !.pc = "key", !.data = f.output, !.pwdBytes = f.pwdBytes,
                                !.salt = f.salt, !.keyLen = f.keyLen,
                                !.countParam = f.countParam,
                                !.pass = 2, !.first = f.data]]
    /\ UNCHANGED <<bundleMap, imageMap, promises, revoked, pendingRevoke, tasks, load,
                   call, exp, epoch, parseCalls, parseFails, decodeCalls, loadCalls,
                   derive, store>>

\* the key arrived and was imported: the output is allocated, the counter
\* starts at 1 and the loop is entered
DecryptKey(x) ==
    LET f == dec[x] IN
    /\ f.pc = "key"
    /\ dec' = [dec EXCEPT ![x] =
            DecryptLoopTop([f EXCEPT
                !.keyBytes = getKeyPbkdf1(f.pwdBytes, f.salt, f.keyLen, f.countParam),
                !.output = [p \in 1..Len(f.data) |-> 0],
                !.counter = 1, !.offset = 0])]
    /\ UNCHANGED <<bundleMap, imageMap, promises, revoked, pendingRevoke, tasks, load,
                   call, exp, epoch, parseCalls, parseFails, decodeCalls, loadCalls,
                   derive, store>>

\* one iteration of the loop, resumed when the keystream block arrived: the
\* chunk is XORed into the output and the counter is incremented
DecryptBlock(x) ==
    LET f == dec[x]
        counterBlock == DecryptCounterBlock(f)
        keystream == AesEncryptBlock(f.keyBytes, counterBlock)
        chunkLen == Min(BLOCK_SIZE, Len(f.data) - f.offset)
    IN
    /\ f.pc = "block"
    /\ dec' = [dec EXCEPT ![x] =
            DecryptLoopTop([f EXCEPT
                !.output = [p \in 1..Len(f.output) |->
                                IF p - f.offset \in 1..chunkLen
                                THEN Xor8(f.data[p], keystream[p - f.offset])
                                ELSE f.output[p]],
                !.blocks = Append(@, counterBlock),
                !.counter = @ + 1,
                !.offset = @ + BLOCK_SIZE])]
    /\ UNCHANGED <<bundleMap, imageMap, promises, revoked, pendingRevoke, tasks, load,
                   call, exp, epoch, parseCalls, parseFails, decodeCalls, loadCalls,
                   derive, store>>

(***************************************************************************)
(* Specifications                                                          *)
(***************************************************************************)
Init ==
    /\ bundleMap = <<>>
    /\ imageMap = <<>>
    /\ promises = <<>>
    /\ revoked = <<>>
    /\ pendingRevoke = {}
    /\ tasks = {}
    /\ load = [c \in LoadCallers |-> IdleLoad]
    /\ call = [g \in Callers |-> IdleCall]
    /\ exp = [e \in Exporters \cup StoreCallers |-> IdleExp]
    /\ epoch = 0
    /\ parseCalls = <<>>
    /\ parseFails = <<>>
    /\ decodeCalls = <<>>
    /\ loadCalls = 0
    /\ derive = [d \in DeriveCallers |-> IdleDerive]
    /\ dec = [x \in DecryptCallers |-> IdleDecrypt]
    /\ store = IdleStore

\* the file lists a loadFiles call may be given: the first caller loads
\* lists of up to MaxFiles files, the second, overlapping it, single files
FileLists(c) == UNION {[1..n -> Files] : n \in 0..(IF c = "L1" THEN MaxFiles ELSE 1)}

\* Loading: overlapping loadFiles calls over every file list, and clear
NextLoad ==
    \/ \E c \in LoadCallers : \E files \in FileLists(c), envIndex \in EnvIndexes :
            LoadFilesCall(c, files, envIndex)
    \/ \E c \in LoadCallers, ok \in BOOLEAN : LoadFilesDecrypt(c, ok)
    \/ \E c \in LoadCallers : LoadFileRead(c)
    \/ \E c \in LoadCallers, ok \in BOOLEAN : LoadFileParsed(c, ok)
    \/ \E c \in LoadCallers : LoadFilesCollect(c)
    \/ epoch < MaxClears /\ Clear

SpecLoad == Init /\ [][NextLoad]_vars

\* The inputs of the image and export specifications: one file is loaded
\* (and again after a clear) and its objects are requested
TheFile == [name |-> NameA, bytes |-> Content1]
TheFileId == calcMd5(Content1)
ImagePathIds == {2, 4}
ExportPathIds == {1, 2, 3, 4, 9}

LoadTheFile ==
    \/ LoadFilesCall("L1", <<TheFile>>, 0)
    \/ LoadFileRead("L1")
    \/ \E ok \in BOOLEAN : LoadFileParsed("L1", ok)
    \/ LoadFilesCollect("L1")

\* The image cache: the getImageUrl calls of two callers run concurrently
\* with loading and clear
Next ==
    \/ LoadTheFile
    \/ epoch < MaxClears /\ Clear
    \/ \E g \in Callers, pathId \in ImagePathIds, bitmapOk \in BOOLEAN :
            GetImageUrlCall(g, TheFileId, pathId, bitmapOk)
    \/ \E g \in Callers : CallReturn(g)
    \/ \E t \in tasks, ok \in BOOLEAN : PoolComplete(t, ok)

Spec == Init /\ [][Next]_vars

\* Single export: the exportAsset calls of one caller run concurrently with
\* loading and with the getImageUrl calls of the other for the sprite
NextExportOne ==
    \/ LoadTheFile
    \/ \E pathId \in ExportPathIds, bitmapOk \in BOOLEAN :
            ExportAssetCall("G1", TheFileId, pathId, bitmapOk)
    \/ \E bitmapOk \in BOOLEAN : GetImageUrlCall("G2", TheFileId, 2, bitmapOk)
    \/ \E g \in Callers : CallReturn(g)
    \/ \E t \in tasks, ok \in BOOLEAN : PoolComplete(t, ok)

SpecExportOne == Init /\ [][NextExportOne]_vars

\* Release of the image urls: the getImageUrl calls of one caller, with
\* loading and one clear more than the other specifications
NextClear ==
    \/ LoadTheFile
    \/ epoch < MaxClears + 1 /\ Clear
    \/ \E pathId \in ImagePathIds, bitmapOk \in BOOLEAN :
            GetImageUrlCall("G1", TheFileId, pathId, bitmapOk)
    \/ CallReturn("G1")
    \/ \E t \in tasks, ok \in BOOLEAN : PoolComplete(t, ok)

SpecClear == Init /\ [][NextClear]_vars

\* The state loadFiles(<<TheFile>>) leaves when the parser accepts the file
\* (a state Spec reaches)
InitLoaded ==
    /\ bundleMap = (TheFileId :> loadAssetBundle(Content1))
    /\ imageMap = <<>>
    /\ promises = <<>>
    /\ revoked = <<>>
    /\ pendingRevoke = {}
    /\ tasks = {}
    /\ load = [c \in LoadCallers |->
                IF c = "L1"
                THEN Collect([LoopTop([IdleLoad EXCEPT !.files = <<TheFile>>])
                                EXCEPT !.md5 = TheFileId],
                             ProjectObjects(loadAssetBundle(Content1), TheFileId, TheFile,
                                            Content1, FALSE))
                ELSE IdleLoad]
    /\ call = [g \in Callers |-> IdleCall]
    /\ exp = [e \in Exporters \cup StoreCallers |-> IdleExp]
    /\ epoch = 0
    /\ parseCalls = (<<TheFileId, 0>> :> 1)
    /\ parseFails = <<>>
    /\ decodeCalls = <<>>
    /\ loadCalls = 1
    /\ derive = [d \in DeriveCallers |-> IdleDerive]
    /\ dec = [x \in DecryptCallers |-> IdleDecrypt]
    /\ store = IdleStore

\* Key derivation: two callers derive keys concurrently, over passwords,
\* salts, key lengths below, at and above one and two digests, and iteration
\* counts from 2
DerivePasswords == {PasswordBytes, TextEncode(<<"a">>)}
DeriveSalts == {TextEncode(<<"a">>), TextEncode(<<"b">>)}
DeriveKeyLens == {0, 20, 32, 41}
DeriveCounts == {2, 4}

NextDerive ==
    \/ \E d \in DeriveCallers, pwdBytes \in DerivePasswords, salt \in DeriveSalts,
          keyLen \in DeriveKeyLens, countParam \in DeriveCounts :
            DeriveCall(d, pwdBytes, salt, keyLen, countParam)
    \/ \E d \in DeriveCallers : DeriveStep(d)

SpecDerive == Init /\ [][NextDerive]_vars

\* Decryption: ciphertexts of no, one, sixteen, seventeen and thirty-three
\* bytes (no block, a short block, a full block, a full and a short block,
\* two full blocks and a short one) under the keys of two passwords and salts
DecryptLens == {0, 1, 16, 17, 33}
Ramp(n, s) == [k \in 1..n |-> (s * k + 3) % 256]
DecryptData == {Ramp(n, s) : n \in DecryptLens, s \in {1, 77}}
DecryptKeyLens == {16, KeyLen}

NextDecrypt ==
    \/ \E x \in DecryptCallers, data \in DecryptData, pwdBytes \in DerivePasswords,
          salt \in DeriveSalts, keyLen \in DecryptKeyLens :
            DecryptCall(x, data, pwdBytes, salt, keyLen, CountParam)
    \/ \E x \in DecryptCallers : DecryptAgain(x)
    \/ \E x \in DecryptCallers : DecryptKey(x)
    \/ \E x \in DecryptCallers : DecryptBlock(x)

SpecDecrypt == Init /\ [][NextDecrypt]_vars

\* Batch export, from the loaded state: one exportAssets call runs
\* concurrently with the getImageUrl and exportAsset calls of one caller
\* for the sprite
MaxSelections == 2
\* the clock readings of the preparing loop, in ms: 30, 50 and 80 ms apart
PrepareTimes == {1000, 1030, 1050, 1080}
Selection(n) ==
    [fileId |-> TheFileId, pathId |-> n, fileName |-> NameA,
     container |-> IF n \in DOMAIN BundleA.containerMap THEN BundleA.containerMap[n] ELSE <<>>]
SelectionLists ==
    {<<>>} \cup {<<Selection(n)>> : n \in 1..4}
    \cup (IF MaxSelections < 2 THEN {}
          ELSE UNION {{<<Selection(n), Selection(m)>> : m \in (n + 1)..4} : n \in 1..4})
    \cup (IF MaxSelections < 3 THEN {}
          ELSE {<<Selection(1), Selection(2), Selection(4)>>})

NextExport ==
    \/ \E bitmapOk \in BOOLEAN : GetImageUrlCall("G1", TheFileId, 2, bitmapOk)
    \/ \E bitmapOk \in BOOLEAN : ExportAssetCall("G1", TheFileId, 2, bitmapOk)
    \/ CallReturn("G1")
    \/ \E e \in Exporters, params \in SelectionLists, groupMethod \in GroupMethods :
            ExportAssetsCall(e, params, groupMethod)
    \/ \E e \in Exporters, zipOk \in BOOLEAN,
          bitmaps \in SUBSET {getAssetKey(TheFileId, n) : n \in {2, 4}},
          times \in UNION {[1..n -> PrepareTimes] : n \in 0..MaxSelections} :
            ExportPrepare(e, zipOk, bitmaps, times)
    \/ \E e \in Exporters : ExportCached(e)
    \/ \E e \in Exporters : ExportGenerate(e)
    \/ \E e \in Exporters, ok \in BOOLEAN : ExportZipDone(e, ok)
    \/ \E t \in tasks, ok \in BOOLEAN : PoolComplete(t, ok)

SpecExport == InitLoaded /\ [][NextExport]_vars

\* ... with the scheduling the event loop and the pool give: a task in the
\* pool is eventually completed, and a call whose awaited promise has
\* resolved is eventually resumed
SpecExportFair ==
    /\ SpecExport
    /\ WF_vars(\E t \in tasks, ok \in BOOLEAN : PoolComplete(t, ok))
    /\ WF_vars(CallReturn("G1"))
    /\ WF_vars(\E e \in Exporters : ExportGenerate(e))

\* The store's batch export, from the loaded state: two callers ask for an
\* export of the text and the sprite
StoreInfos == <<Selection(1), Selection(2)>>

NextStore ==
    \/ \E b \in StoreCallers : BatchExportAsset(b, StoreInfos, "NONE")
    \/ \E b \in StoreCallers, zipOk \in BOOLEAN,
          bitmaps \in SUBSET {getAssetKey(TheFileId, 2)} :
            ExportPrepare(b, zipOk, bitmaps, <<1000>>)
    \/ \E b \in StoreCallers : ExportGenerate(b)
    \/ \E b \in StoreCallers, ok \in BOOLEAN : ExportZipDone(b, ok)
    \/ \E t \in tasks, ok \in BOOLEAN : PoolComplete(t, ok)
    \/ \E b \in StoreCallers : BatchExportOnProgress(b)
    \/ \E b \in StoreCallers, saveOk \in BOOLEAN : BatchExportSettled(b, saveOk)

SpecStore == InitLoaded /\ [][NextStore]_vars

\* ... with the scheduling of the event loops, the zip worker and the pool:
\* every step of a running export is eventually taken
SpecStoreFair ==
    /\ SpecStore
    /\ WF_vars(\E b \in StoreCallers, zipOk \in BOOLEAN,
                  bitmaps \in SUBSET {getAssetKey(TheFileId, 2)} :
                    ExportPrepare(b, zipOk, bitmaps, <<1000>>))
    /\ WF_vars(\E b \in StoreCallers : ExportGenerate(b))
    /\ WF_vars(\E b \in StoreCallers, ok \in BOOLEAN : ExportZipDone(b, ok))
    /\ WF_vars(\E t \in tasks, ok \in BOOLEAN : PoolComplete(t, ok))
    /\ WF_vars(\E b \in StoreCallers : BatchExportOnProgress(b))
    /\ WF_vars(\E b \in StoreCallers, saveOk \in BOOLEAN : BatchExportSettled(b, saveOk))

\* The progress of one batch export of the store: the text and both images
\* or the sprite alone are exported, the sprite may be in the image cache,
\* the preparing loop is fast or slow, and the archive writer reports its
\* percent up to MaxZipEvents times
ProgressSelections == {<<Selection(1), Selection(2), Selection(4)>>, <<Selection(2)>>}
ProgressTimes == {<<>>, <<1000>>, <<1000, 1050>>, <<1000, 1030>>}

NextProgress ==
    \/ GetImageUrlCall("G1", TheFileId, 2, TRUE)
    \/ CallReturn("G1")
    \/ \E infos \in ProgressSelections : BatchExportAsset("B1", infos, "NONE")
    \/ \E zipOk \in BOOLEAN, bitmaps \in SUBSET {getAssetKey(TheFileId, n) : n \in {2, 4}},
          times \in ProgressTimes :
            ExportPrepare("B1", zipOk, bitmaps, times)
    \/ ExportCached("B1")
    \/ ExportGenerate("B1")
    \/ \E percent \in ZipPercents : ExportZipProgress("B1", percent)
    \/ \E ok \in BOOLEAN : ExportZipDone("B1", ok)
    \/ \E t \in tasks, ok \in BOOLEAN : PoolComplete(t, ok)
    \/ BatchExportOnProgress("B1")
    \/ \E saveOk \in BOOLEAN : BatchExportSettled("B1", saveOk)

SpecProgress == InitLoaded /\ [][NextProgress]_vars

(***************************************************************************)
(* Properties                                                              *)
(***************************************************************************)
\* the calls that went through loadImage for an image object and were handed
\* a tracked promise
Joined(g) == call[g].pc \in {"wait", "done"} /\ call[g].promise # 0

\* C1: getImageUrl calls for the same key of a Sprite / Texture2D object
\* that no clear() separates are handed the same tracked promise, return the
\* same result, and the decode of that object was started exactly once.
C1_SameResultOneDecode ==
    /\ \A g, h \in Callers :
            (Joined(g) /\ Joined(h) /\ call[g].key = call[h].key
                /\ call[g].epoch = call[h].epoch)
            => /\ call[g].promise = call[h].promise
               /\ (call[g].pc = "done" /\ call[h].pc = "done")
                    => call[g].result = call[h].result
    /\ \A g \in Callers :
            Joined(g) => Count(decodeCalls, <<call[g].key, call[g].epoch>>) = 1
    /\ \A kd \in DOMAIN decodeCalls : decodeCalls[kd] <= 1

\* two calls for the same key are waiting at once for the one decode
C1_Witness ==
    /\ call["G1"].pc = "wait" /\ call["G2"].pc = "wait"
    /\ call["G1"].key = call["G2"].key
    /\ call["G1"].promise = call["G2"].promise
    /\ promises[call["G1"].promise].state = "pending"
    /\ \E t \in tasks : t.kind = "image" /\ t.owner = call["G1"].promise

\* C2: for every key at most one conversion of the object's image is in
\* flight, whatever mix of getImageUrl, exportAsset and exportAssets calls
\* is running.
C2_OneConversionInFlight ==
    \A t1, t2 \in tasks : t1.key = t2.key => t1 = t2


\* every AssetInfo a loadFiles call has collected so far
AllInfos == UNION {{load[c].infos[k] : k \in 1..Len(load[c].infos)} : c \in LoadCallers}

\* C3 (as stated): two files with identical bytes loaded under two different
\* names, under any load options, get AssetInfo entries with the same fileId,
\* and objects with the same pathId get the same key.
C3_SameBytesSameFileId ==
    \A a, b \in AllInfos :
        (a.raw = b.raw /\ a.fileName # b.fileName)
        => /\ a.fileId = b.fileId
           /\ a.pathId = b.pathId => a.key = b.key

\* C3 (amended): two files with identical bytes loaded under two different
\* names, neither of them decrypted by loadFiles (envIndex is not 2 or the
\* name does not end in .ab), get AssetInfo entries with the same fileId, and
\* objects with the same pathId get the same key.
C3_SameBytesSameFileIdUndecrypted ==
    \A a, b \in AllInfos :
        (a.raw = b.raw /\ a.fileName # b.fileName /\ ~a.decrypted /\ ~b.decrypted)
        => /\ a.fileId = b.fileId
           /\ a.pathId = b.pathId => a.key = b.key

\* the same bytes were loaded as a.ab and as b.ab, undecrypted
C3_Witness ==
    \E a, b \in AllInfos :
        /\ a.raw = b.raw /\ a.fileName = NameA /\ b.fileName = NameB
        /\ ~a.decrypted /\ ~b.decrypted
        /\ a.pathId = b.pathId /\ a.key = b.key

\* C4: between two clears the parser is invoked at most once per content
\* hash, within one loadFiles call and across overlapping ones (invocations
\* that threw, which leave no Bundle to return, are not counted).
C4_ParseOncePerHash ==
    \A k \in DOMAIN parseCalls : parseCalls[k] - Count(parseFails, k) <= 1


\* what loadFile returns for file j of a call when nothing fails: the bytes
\* it hashes and parses are the file's own or their decrypted copy
Handed(l, j) ==
    IF l.envIndex = 2 /\ EndsWithAb(l.files[j].name)
    THEN Decrypted[l.files[j]] ELSE l.files[j].bytes
ExpectedInfos(l, j) ==
    ProjectObjects(loadAssetBundle(Handed(l, j)), calcMd5(Handed(l, j)), l.files[j],
                   l.files[j].bytes, l.envIndex = 2 /\ EndsWithAb(l.files[j].name))
InfosOfSucceeded(l) ==
    LET acc[j \in 0..Len(l.files)] ==
            IF j = 0 THEN <<>>
            ELSE IF j \in l.failed THEN acc[j - 1]
            ELSE acc[j - 1] \o ExpectedInfos(l, j)
    IN  acc[Len(l.files)]

\* C6: when a loadFiles call has returned, every file was processed, every
\* file whose decryption or parsing failed has exactly one {name, error}
\* entry, in file order, and infos holds the infos of the files that
\* succeeded.
C6_FailureRecordedBatchContinues ==
    \A c \in LoadCallers :
        LET l == load[c]
            failedFiles == SelectSeq2(l.files, l.failed)
        IN  l.pc = "done" =>
                /\ l.i = Len(l.files)
                /\ Len(l.errors) = Cardinality(l.failed)
                /\ \A k \in 1..Len(l.errors) : l.errors[k].name = failedFiles[k].name
                /\ l.infos = InfosOfSucceeded(l)
                /\ l.successNum = Len(l.files) - Cardinality(l.failed)

\* a call returned after its first file failed and its second succeeded
C6_Witness ==
    \E c \in LoadCallers :
        /\ load[c].pc = "done" /\ Len(load[c].files) = 2
        /\ load[c].failed = {1} /\ Len(load[c].errors) = 1
        /\ Len(load[c].infos) > 0

\* C7: over the progress events of one loadFiles call the progress (num /
\* den) never decreases and stays within 0..100, and totalAssetNum never
\* decreases.
C7_ProgressMonotone ==
    \A c \in LoadCallers :
        LET ev == load[c].events IN
        /\ \A k \in 1..Len(ev) :
                ev[k].den > 0 /\ 0 <= ev[k].num /\ ev[k].num <= 100 * ev[k].den
        /\ \A k \in 1..(Len(ev) - 1) :
                /\ ev[k].num * ev[k + 1].den <= ev[k + 1].num * ev[k].den
                /\ ev[k].totalAssetNum <= ev[k + 1].totalAssetNum

\* a call emitted two events and collected infos between them
C7_Witness ==
    \E c \in LoadCallers :
        /\ Len(load[c].events) >= 2
        /\ load[c].events[1].num < load[c].events[2].num
        /\ load[c].events[1].totalAssetNum < load[c].events[2].totalAssetNum


\* a getImageUrl call for an image key that was decoded before the last
\* clear() and has no entry in the image index now
FirstAfterClear(g, pathId, bitmapOk) ==
    /\ GetImageUrlCall(g, TheFileId, pathId, bitmapOk)
    /\ epoch > 0
    /\ Count(decodeCalls, <<getAssetKey(TheFileId, pathId), epoch - 1>>) > 0
    /\ getAssetKey(TheFileId, pathId) \notin DOMAIN imageMap

\* ... and what a fresh decode is: the decode counter of the key goes up and
\* the call is handed a promise that did not exist before
FreshDecode(g, pathId) ==
    /\ Count(decodeCalls', <<getAssetKey(TheFileId, pathId), epoch>>)
            = Count(decodeCalls, <<getAssetKey(TheFileId, pathId), epoch>>) + 1
    /\ call'[g].promise = Len(promises) + 1
    /\ getAssetKey(TheFileId, pathId) \in DOMAIN imageMap'

\* C5 (as stated): clear() leaves the image index empty, and the next
\* getImageUrl for a key that was cached before the clear performs a fresh
\* decode.
C5_ClearThenFreshDecode ==
    [][/\ (epoch' # epoch) => imageMap' = <<>>
       /\ \A g \in Callers, pathId \in ImagePathIds, bitmapOk \in BOOLEAN :
            FirstAfterClear(g, pathId, bitmapOk) => FreshDecode(g, pathId)]_vars

\* C5 (amended): clear() leaves the image index and the bundle store empty;
\* the next getImageUrl for a key that was cached before the clear performs a
\* fresh decode when the key's bundle has been loaded again, and returns
\* absent without decoding when it has not.
C5_ClearThenFreshDecodeOnceReloaded ==
    [][/\ (epoch' # epoch) => (imageMap' = <<>> /\ bundleMap' = <<>>)
       /\ \A g \in Callers, pathId \in ImagePathIds, bitmapOk \in BOOLEAN :
            FirstAfterClear(g, pathId, bitmapOk)
            => IF TheFileId \in DOMAIN bundleMap
               THEN FreshDecode(g, pathId)
               ELSE /\ decodeCalls' = decodeCalls /\ imageMap' = imageMap
                    /\ call'[g].pc = "done" /\ call'[g].result = Undefined]_vars

\* a key was decoded before the clear and again after it
C5_Witness ==
    /\ epoch = 1
    /\ \E pathId \in ImagePathIds :
            /\ Count(decodeCalls, <<getAssetKey(TheFileId, pathId), 0>>) = 1
            /\ Count(decodeCalls, <<getAssetKey(TheFileId, pathId), 1>>) = 1


\* the exportAsset calls that have returned
Exported(g) == call[g].pc = "done" /\ call[g].op = "exportAsset"

\* C8 (as stated): exportAsset returns absent for a missing object and for
\* an object of a non-exportable type, and a populated result for every
\* loaded Sprite, Texture2D or TextAsset object.
C8_ExportOneByType ==
    \A g \in Callers :
        Exported(g) =>
            IF call[g].obj = NoObj \/ call[g].obj.type \notin {"Sprite", "Texture2D", "TextAsset"}
            THEN call[g].result = Undefined
            ELSE call[g].result.kind = "file"

\* C8 (amended): exportAsset returns absent for a missing object and for an
\* object of a non-exportable type; it returns a populated result for every
\* loaded TextAsset object, and for a loaded Sprite or Texture2D object
\* exactly when the object's decode, cached or fresh, yields an encoded image
\* (absent when the object has no bitmap or its conversion failed).
C8_ExportOneByTypeAndDecode ==
    \A g \in Callers :
        LET f == call[g]
            legalName == getLegalFileName(f.obj.name)
        IN
        Exported(g) =>
            CASE f.obj = NoObj \/ f.obj.type \notin {"Sprite", "Texture2D", "TextAsset"} ->
                    f.result = Undefined
              [] f.obj.type = "TextAsset" ->
                    f.result = [kind |-> "file", name |-> legalName \o <<".", "txt">>,
                                type |-> "text/plain", data |-> f.obj.data]
              [] OTHER ->
                    /\ f.promise \in 1..Len(promises)
                    /\ promises[f.promise].state = "fulfilled"
                    /\ IF promises[f.promise].value.kind = "image"
                       THEN f.result = [kind |-> "file", name |-> legalName \o <<".", "png">>,
                                        type |-> "image/png", data |-> PngOf(f.key)]
                       ELSE f.result = Undefined

\* an exportAsset call for the sprite returned its PNG
C8_Witness ==
    /\ Exported("G1")
    /\ call["G1"].obj.type = "Sprite"
    /\ call["G1"].result.kind = "file"
    /\ call["G1"].result.name = <<"a", "b", ".", "png">>


\* the selection an exportAssets call keeps for a key: the last one given
SelectionOf(params, key) ==
    params[CHOOSE k \in 1..Len(params) :
                /\ ParamKey(params[k]) = key
                /\ \A j \in (k + 1)..Len(params) : ParamKey(params[j]) # key]

\* the flat archive name of a selected object: its legal name and the
\* extension of its type
FlatName(sel) ==
    LET obj == getAssetObj(sel.fileId, sel.pathId)
    IN  getLegalFileName(obj.name) \o <<".", IF obj.type = "TextAsset" THEN "txt" ELSE "png">>

\* C9: the archive path of every entry exportAssets writes is given by the
\* grouping policy and that entry's selection alone: NONE the flat name,
\* TYPE_NAME <Type>/<name>, SOURCE_FILE_NAME <fileName>/<name>, and
\* CONTAINER_PATH the container verbatim when it is not empty and the flat
\* name when it is.
C9_ArchivePathByPolicy ==
    \A e \in Exporters :
        LET x == exp[e] IN
        \A name \in DOMAIN x.zip :
            LET sel == SelectionOf(x.params, x.zip[name].key)
                type == getAssetObj(sel.fileId, sel.pathId).type
            IN  CASE x.groupMethod = "NONE" -> name = FlatName(sel)
                  [] x.groupMethod = "TYPE_NAME" -> name = <<type, "/">> \o FlatName(sel)
                  [] x.groupMethod = "SOURCE_FILE_NAME" ->
                        name = sel.fileName \o <<"/">> \o FlatName(sel)
                  [] x.groupMethod = "CONTAINER_PATH" ->
                        /\ sel.container # <<>> => name = sel.container
                        /\ sel.container = <<>> => name = FlatName(sel)

\* an export by container path wrote the text, which has no container, under
\* its flat name and the sprite under its container
C9_Witness ==
    /\ exp["E1"].pc = "done"
    /\ exp["E1"].groupMethod = "CONTAINER_PATH"
    /\ DOMAIN exp["E1"].zip = {<<"t", ".", "txt">>, <<"x", "/", "y">>}
    /\ exp["E1"].zip[<<"x", "/", "y">>].key = getAssetKey(TheFileId, 2)

\* the entry an exportAssets call wrote for a key, if any
EntryOf(x, key) == {name \in DOMAIN x.zip : x.zip[name].key = key}

\* C10: exportAssets rejects only on a fault of the archive writer; when it
\* returns, the archive holds every selected text, every selected image that
\* was cached, and every selected image whose bitmap was produced, whether or
\* not the bitmap of a sibling could be produced or its conversion failed.
C10_NoRejectOnPartialFailure ==
    \A e \in Exporters :
        LET x == exp[e] IN
        /\ x.pc = "rejected" => x.zipFault
        /\ x.pc = "done" =>
            /\ x.result = [kind |-> "archive", entries |-> x.zip]
            /\ \A k \in 1..Len(x.order) :
                    isTextAssetObj(x.objMap[x.order[k]].obj)
                    => \E name \in EntryOf(x, x.order[k]) :
                            x.zip[name].data = x.objMap[x.order[k]].obj.data
            /\ \A k \in 1..Len(x.imgData) :
                    \E name \in EntryOf(x, x.imgData[k].key) :
                            x.zip[name].data = x.imgData[k].blob
            /\ \A k \in 1..Len(x.imgBitmaps) : EntryOf(x, x.imgBitmaps[k]) # {}
            /\ x.complete = x.total

\* an export of two images returned an archive holding the sprite's PNG
\* although the texture's bitmap could not be produced or its conversion
\* failed
C10_Witness ==
    LET x == exp["E1"] IN
    /\ x.pc = "done"
    /\ \E name \in EntryOf(x, getAssetKey(TheFileId, 2)) :
            x.zip[name].data = PngOf(getAssetKey(TheFileId, 2))
    /\ getAssetKey(TheFileId, 4) \in DOMAIN x.objMap
    /\ \A name \in EntryOf(x, getAssetKey(TheFileId, 4)) : x.zip[name].data = <<>>


\* the promises some entry of the image index refers to
Indexed == {imageMap[k] : k \in DOMAIN imageMap}

\* C11: no url is revoked twice, whatever the sequence of getImageUrl and
\* clear calls; the url of an entry still in the image index is not
\* revoked; and the url of every entry a clear() dropped, settled or pending
\* at that time, is revoked once the entry has settled.
C11_UrlReleasedExactlyOnce ==
    /\ \A u \in DOMAIN revoked : revoked[u] <= 1
    /\ \A p \in 1..Len(promises) :
            (promises[p].state = "fulfilled" /\ promises[p].value.kind = "image")
            => Count(revoked, promises[p].value.url) = (IF p \in Indexed THEN 0 ELSE 1)

\* after a second clear, the urls of two entries dropped by different clears
\* have each been revoked once
C11_Witness ==
    /\ epoch = 2
    /\ Cardinality({u \in DOMAIN revoked : revoked[u] = 1}) >= 2
    /\ pendingRevoke = {} /\ tasks = {}


\* C12: every getKeyPbkdf1 call with countParam >= 2 returns exactly keyLen
\* bytes, and two calls with the same inputs, also when they overlap, return
\* the same bytes: those of the derivation run on its own.
C12_DeriveLengthDeterministic ==
    \A d \in DeriveCallers :
        LET f == derive[d] IN
        (f.pc = "done" /\ f.countParam >= 2) =>
            /\ Len(f.result) = f.keyLen
            /\ \A k \in 1..Len(f.result) : f.result[k] \in 0..255
            /\ f.result = getKeyPbkdf1(f.pwdBytes, f.salt, f.keyLen, f.countParam)
            /\ \A e \in DeriveCallers :
                    (derive[e].pc = "done" /\ derive[e].pwdBytes = f.pwdBytes
                        /\ derive[e].salt = f.salt /\ derive[e].keyLen = f.keyLen
                        /\ derive[e].countParam = f.countParam)
                    => derive[e].result = f.result

\* two calls with the same inputs returned a 41-byte key, three digests long
\* before the cut
C12_Witness ==
    /\ derive["D1"].pc = "done" /\ derive["D2"].pc = "done"
    /\ derive["D1"].keyLen = 41 /\ derive["D1"].countParam = 4
    /\ derive["D1"].pwdBytes = derive["D2"].pwdBytes /\ derive["D1"].salt = derive["D2"].salt
    /\ derive["D2"].keyLen = 41 /\ derive["D2"].countParam = 4
    /\ Len(derive["D1"].hashder) = 60 /\ Len(derive["D1"].result) = 41


\* the infos of the files among the first n of a call that succeeded
InfosUpTo(l, n) ==
    LET acc[j \in 0..n] ==
            IF j = 0 THEN <<>>
            ELSE IF j \in l.failed THEN acc[j - 1]
            ELSE acc[j - 1] \o ExpectedInfos(l, j)
    IN  acc[n]

\* C13: a loadFiles call processes its files one after another in input
\* order: while it works on file i + 1 (decrypting, reading, parsing or
\* projecting it), the files 1..i have each failed or delivered their infos,
\* file i + 1 is the last one announced, and no later file has been touched.
C13_FilesSequential ==
    \A c \in LoadCallers :
        LET l == load[c]
            started == IF l.pc = "done" THEN l.i ELSE l.i + 1
        IN  l.pc # "idle" =>
                /\ l.i <= Len(l.files)
                /\ (l.pc = "done") = (l.i = Len(l.files))
                /\ Len(l.events) = started
                /\ \A k \in 1..started : l.events[k].name = l.files[k].name
                /\ l.pc # "done" => l.file.name = l.files[l.i + 1].name
                /\ l.failed \subseteq 1..l.i
                /\ Len(l.errors) = Cardinality(l.failed)
                /\ l.infos = InfosUpTo(l, l.i)

\* the second file of a call is being parsed after the first delivered infos
C13_Witness ==
    \E c \in LoadCallers :
        /\ load[c].pc = "parse" /\ load[c].i = 1
        /\ Len(load[c].files) = 2
        /\ load[c].failed = {} /\ Len(load[c].infos) > 0


\* the entries of the image index whose decode failed: settled to undefined
FailedEntry(key) ==
    /\ key \in DOMAIN imageMap
    /\ promises[imageMap[key]].state = "fulfilled"
    /\ promises[imageMap[key]].value = Undefined

\* C14: no tracked promise is ever rejected: a promise is pending exactly
\* while its conversion task is in the pool, and a failed decode settles it
\* to undefined.  A getImageUrl call that was handed a failed decode returns
\* absent, which the store shows as null data, and while the failed entry is
\* in the image index the key has been decoded once since the last clear().
C14_DecodeFailureCached ==
    /\ \A p \in 1..Len(promises) :
            /\ promises[p].state \in {"pending", "fulfilled"}
            /\ (promises[p].state = "pending")
                    = (\E t \in tasks : t.kind = "image" /\ t.owner = p)
    /\ \A key \in DOMAIN imageMap :
            FailedEntry(key) => Count(decodeCalls, <<key, epoch>>) = 1
    /\ \A g \in Callers :
            (call[g].pc = "done" /\ call[g].op = "getImageUrl" /\ call[g].promise # 0
                /\ promises[call[g].promise].value = Undefined)
            => /\ call[g].result = Undefined
               /\ StoreData(call[g].result) = [kind |-> "null"]

\* a second getImageUrl call joined the failed entry of a key: both returned
\* absent after one decode
C14_Witness ==
    /\ \E key \in DOMAIN imageMap :
            /\ FailedEntry(key)
            /\ \A g \in Callers :
                    /\ call[g].pc = "done" /\ call[g].key = key
                    /\ call[g].promise = imageMap[key]
                    /\ call[g].result = Undefined
            /\ Count(decodeCalls, <<key, epoch>>) = 1


\* the 'exportAsset' events of an exportAssets call, in order
AssetEvents(x) ==
    SelectSeq2(x.events, {k \in 1..Len(x.events) : x.events[k].type = "exportAsset"})

\* C15: in an exportAssets call total is the number of cached images plus
\* the number of images to convert plus one if a text is selected; the
\* counter stays within 0..total, every 'exportAsset' event reports the
\* counter after one more increase, so a percent in (0, 100] above the
\* previous one, and when the converting phase has ended the counter equals
\* total and the last event reported 100.
C15_SharedCounter ==
    \A e \in Exporters :
        LET x == exp[e]
            ev == AssetEvents(x)
            hasText == \E k \in 1..Len(x.order) : isTextAssetObj(x.objMap[x.order[k]].obj)
        IN  x.pc \in {"cached", "converting", "zipping", "done"} =>
                /\ x.total = Len(x.imgData) + Len(x.imgBitmaps) + (IF hasText THEN 1 ELSE 0)
                /\ 0 <= x.complete /\ x.complete <= x.total
                /\ \A k \in 1..Len(ev) :
                        /\ ev[k].den = x.total
                        /\ 0 < ev[k].num /\ ev[k].num <= 100 * ev[k].den
                /\ \A k \in 1..(Len(ev) - 1) : ev[k].num < ev[k + 1].num
                /\ ev # <<>> => ev[Len(ev)].num = x.complete * 100
                /\ ev = <<>> => x.complete = 0
                /\ x.pc \in {"zipping", "done"} => x.complete = x.total

\* an export of a cached image and an image to convert ended its converting
\* phase after two events, the last reporting 100
C15_Witness ==
    LET x == exp["E1"] IN
    /\ x.pc = "done"
    /\ Len(x.imgData) = 1 /\ Len(x.imgBitmaps) = 1 /\ x.total = 2
    /\ Len(AssetEvents(x)) = 2
    /\ AssetEvents(x)[1].num = 100 /\ AssetEvents(x)[2].num = 200


\* the rank of a phase in the order preparing, converting, packaging
PhaseRank(type) ==
    CASE type = "exportPreparing" -> 1
      [] type = "exportAsset" -> 2
      [] type = "exportZip" -> 3

\* C16: the progress events of an exportAssets call never go back to an
\* earlier phase, and once zip.generate has been called no conversion task
\* of the call is outstanding and the archive holds an entry for every
\* selected text, every cached image and every image given to the pool.
C16_PhasesOrdered ==
    \A e \in Exporters :
        LET x == exp[e] IN
        /\ \A j, k \in 1..Len(x.events) :
                j < k => PhaseRank(x.events[j].type) <= PhaseRank(x.events[k].type)
        /\ x.pc \in {"idle", "init", "cached", "converting", "zipping"}
                => \A k \in 1..Len(x.events) : x.events[k].type # "exportZip"
        /\ (x.pc \in {"zipping", "done"} \/ (x.pc = "rejected" /\ x.order # <<>>)) =>
                /\ \A t \in tasks : ~(t.kind = "export" /\ t.owner = e)
                /\ \A k \in 1..Len(x.order) :
                        isTextAssetObj(x.objMap[x.order[k]].obj) => EntryOf(x, x.order[k]) # {}
                /\ \A k \in 1..Len(x.imgData) : EntryOf(x, x.imgData[k].key) # {}
                /\ \A k \in 1..Len(x.imgBitmaps) : EntryOf(x, x.imgBitmaps[k]) # {}
                /\ Len(AssetEvents(x)) =
                        Len(x.imgBitmaps) + (IF x.imgData # <<>> THEN 1 ELSE 0)
                        + (IF \E k \in 1..Len(x.order) : isTextAssetObj(x.objMap[x.order[k]].obj)
                           THEN 1 ELSE 0)

\* zip.generate was called after two preparing events and the callbacks of
\* two conversions
C16_Witness ==
    LET x == exp["E1"] IN
    /\ x.pc = "zipping"
    /\ Len(x.imgBitmaps) = 2
    /\ Len(x.events) = 4
    /\ x.events[2].type = "exportPreparing" /\ x.events[3].type = "exportAsset"


\* the conversion callbacks an exportAssets call has received: its counter
\* less the steps of the cached images and of the texts
CallbacksOf(x) ==
    IF x.pc = "cached" THEN x.complete
    ELSE x.complete - Len(x.imgData)
         - (IF \E k \in 1..Len(x.order) : isTextAssetObj(x.objMap[x.order[k]].obj)
            THEN 1 ELSE 0)

\* every task of a batch is in the pool or has called back, once
PoolAccounting ==
    /\ \A e \in Exporters :
            exp[e].pc \in {"cached", "converting", "zipping", "done"}
            => /\ Cardinality({t \in tasks : t.kind = "export" /\ t.owner = e})
                    + CallbacksOf(exp[e]) = Len(exp[e].imgBitmaps)
               /\ \A k \in 1..Len(exp[e].imgBitmaps) :
                    \/ [kind |-> "export", owner |-> e, key |-> exp[e].imgBitmaps[k]] \in tasks
                    \/ EntryOf(exp[e], exp[e].imgBitmaps[k]) # {}
               /\ exp[e].pc \in {"zipping", "done"}
                    => \A t \in tasks : ~(t.kind = "export" /\ t.owner = e)
    /\ \A t \in tasks :
            t.kind = "image" => promises[t.owner].state = "pending"

\* C17: addTasks calls back exactly once for every submitted task, failed
\* encodes included, and completes only after all of them; so a getImageUrl
\* or exportAsset call waiting for a decode eventually returns and an
\* exportAssets call waiting for its batch eventually reaches zip.generate.
C17_PoolCallsBackOnceAndCompletes ==
    /\ []PoolAccounting
    /\ (call["G1"].pc = "wait") ~> (call["G1"].pc = "done")
    /\ \A e \in Exporters : (exp[e].pc = "converting") ~> (exp[e].pc = "zipping")

\* an exportAssets call reached zip.generate after a conversion that failed
\* called back with no data
C17_Witness ==
    LET x == exp["E1"] IN
    /\ x.pc = "zipping"
    /\ Len(x.imgBitmaps) = 2
    /\ \E name \in DOMAIN x.zip : x.zip[name].data = <<>>
    /\ CallbacksOf(x) = 2


\* C18: any two consecutive 'exportPreparing' events of an exportAssets call
\* were emitted at clock readings at least 50 ms apart.
C18_PreparingThrottled ==
    \A e \in Exporters :
        LET x == exp[e]
            prep == SelectSeq2(x.events,
                        {k \in 1..Len(x.events) : x.events[k].type = "exportPreparing"})
        IN  /\ Len(x.prepareAt) = Len(prep)
            /\ \A k \in 1..(Len(x.prepareAt) - 1) :
                    x.prepareAt[k + 1] - x.prepareAt[k] >= 50

\* two images were prepared 50 ms apart and both iterations emitted an event
C18_Witness ==
    LET x == exp["E1"] IN
    /\ x.prepareAt = <<1000, 1050>>
    /\ Len(x.events) >= 2
    /\ x.events[2].type = "exportPreparing" /\ x.events[2].num = 100


\* The step in which loadFile of caller c projects a bundle
Projects(c) == load[c].pc \in {"read", "parse"} /\ load'[c].pc = "collect"

\* C19: the projection of a bundle holds, in the bundle's order, exactly one
\* AssetInfo per object of type TextAsset, Sprite, SpriteAtlas or Texture2D
\* and none for the other objects; the data of a TextAsset is its decoded
\* text; the data of an image is absent when the image index holds no
\* fulfilled entry for its key at that moment (no entry, or a pending one),
\* and is the url, or null for an image that could not be made, when it does.
C19_ProjectionByType ==
    [][\A c \in LoadCallers :
        Projects(c) =>
            LET r == load'[c].result
                fileId == load'[c].md5
                objects == bundleMap'[fileId].objects
                InfosOf(obj) == {j \in 1..Len(r) : r[j].pathId = obj.pathId}
            IN  /\ \A k \in 1..Len(objects) :
                    Cardinality(InfosOf(objects[k])) =
                        IF objects[k].type \in {"TextAsset", "Sprite", "SpriteAtlas", "Texture2D"}
                        THEN 1 ELSE 0
                /\ \A j \in 1..Len(r) : \E k \in 1..Len(objects) :
                    LET obj == objects[k]
                        key == <<fileId, obj.pathId>>
                        settled == /\ key \in DOMAIN imageMap
                                   /\ promises[imageMap[key]].state = "fulfilled"
                    IN  /\ r[j].pathId = obj.pathId /\ r[j].type = obj.type
                        /\ r[j].key = key /\ r[j].name = obj.name
                        /\ obj.type = "TextAsset" =>
                                /\ r[j].data.kind = "text"
                                /\ TextEncode(r[j].data.text) = obj.data
                        /\ obj.type = "SpriteAtlas" => r[j].data.kind = "undefined"
                        /\ obj.type \in {"Sprite", "Texture2D"} =>
                                /\ ~settled => r[j].data.kind = "undefined"
                                /\ settled =>
                                    LET v == promises[imageMap[key]].value IN
                                    IF v.kind = "image"
                                    THEN r[j].data = [kind |-> "url", url |-> v.url]
                                    ELSE r[j].data.kind = "null"
                /\ \A i, j \in 1..Len(r) : i < j => r[i].pathId < r[j].pathId
    ]_vars

\* a file with five objects was projected while the sprite's image was
\* cached and the texture's was still being converted: four infos, the text
\* decoded, the sprite with its url, the texture without data
C19_Witness ==
    LET l == load["L1"] IN
    /\ l.pc = "collect"
    /\ Len(l.result) = 4
    /\ l.result[1].data = [kind |-> "text", text |-> <<"x", "y">>]
    /\ l.result[2].data.kind = "url"
    /\ l.result[3].data.kind = "undefined"
    /\ l.result[4].data.kind = "undefined"
    /\ l.result[4].key \in DOMAIN imageMap
    /\ promises[imageMap[l.result[4].key]].state = "pending"


\* C20: a finished decryptAesCtrPbkdf1 call returns as many bytes as the
\* ciphertext has; it encrypted ceil(n / 16) counter blocks, the k-th (from
\* 0) holding k + 1 in its first eight bytes, lowest byte first, and zero in
\* its last eight; every output byte is the ciphertext byte XOR the byte of
\* its block's keystream at its position in the block, so a short last block
\* uses only the first bytes of its keystream.
C20_CtrKeystream ==
    \A x \in DecryptCallers :
        LET f == dec[x]
            n == Len(f.data)
        IN  f.pc = "done" =>
            /\ Len(f.output) = n
            /\ Len(f.blocks) = (n + 15) \div 16
            /\ \A k \in 0..(Len(f.blocks) - 1) :
                LET blk == f.blocks[k + 1] IN
                /\ Len(blk) = 16
                /\ blk[1] + 256 * blk[2] = k + 1
                /\ \A i \in 3..16 : blk[i] = 0
            /\ \A p \in 1..n :
                LET k == (p - 1) \div 16
                    ks == AesEncryptBlock(f.keyBytes, f.blocks[k + 1])
                IN  Xor8(f.output[p], ks[p - 16 * k]) = f.data[p]
            /\ f.output = decryptAesCtrPbkdf1(f.data, f.pwdBytes, f.salt, f.keyLen,
                                              f.countParam)

\* a ciphertext of seventeen bytes was decrypted with two keystream blocks,
\* the second used for one byte
C20_Witness ==
    LET f == dec["X1"] IN
    /\ f.pc = "done"
    /\ Len(f.data) = 17 /\ Len(f.output) = 17
    /\ Len(f.blocks) = 2
    /\ f.blocks[2][1] = 2
    /\ f.output # f.data


\* the number of extension digests a key of keyLen bytes needs
ExtensionsFor(keyLen) == IF keyLen <= 20 THEN 0 ELSE (keyLen - 1) \div 20

C22_DecryptInvolution ==
    \A x \in DecryptCallers :
        LET f == dec[x] IN
        (f.pc = "done" /\ f.pass = 2) => f.output = f.first

\* thirty-three bytes were decrypted twice, with three keystream blocks each
\* time; the first pass changed them and the second gave them back
C22_Witness ==
    LET f == dec["X1"] IN
    /\ f.pc = "done" /\ f.pass = 2
    /\ Len(f.first) = 33 /\ Len(f.blocks) = 3
    /\ f.data # f.first
    /\ f.output = f.first


\* the store calls whose export is running, and the exportAssets calls of
\* the store that have not ended
BatchExporting == {b \in StoreCallers : store.calls[b].pc = "exporting"}
ExportsRunning == {b \in StoreCallers : exp[b].pc \notin {"idle", "done", "rejected"}}

OneBatchExport ==
    /\ Cardinality(BatchExporting) <= 1
    /\ Cardinality(ExportsRunning) <= 1
    /\ ExportsRunning \subseteq BatchExporting
    /\ store.isBatchExporting <=> BatchExporting # {}
    /\ BatchExporting = {} => store.progress = NoProgress

\* C23: at most one batch export of the store runs at a time; while
\* isBatchExporting is set no exportAssets call is started; the flag is set
\* exactly while a call's export runs, so it is false and the progress is
\* cleared once that export has succeeded or been rejected; and, the export
\* being scheduled fairly, a set flag is eventually reset.
C23_OneBatchExportFlagReset ==
    /\ []OneBatchExport
    /\ [][\A b \in StoreCallers :
            (store.isBatchExporting /\ exp[b].pc = "idle") => exp'[b].pc = "idle"]_vars
    /\ (store.isBatchExporting ~> ~store.isBatchExporting)

\* a caller that was turned away while the other's export ran, has its own
\* export running after the other's was rejected
C23_Witness ==
    /\ store.calls["B1"].pc = "done" /\ store.calls["B1"].outcome = "error"
    /\ exp["B1"].pc = "rejected"
    /\ store.calls["B2"].skipped
    /\ store.calls["B2"].pc = "exporting"
    /\ exp["B2"].pc = "converting"
    /\ store.isBatchExporting


\* a / b <= c / d for fractions with positive denominators
FracLeq(x, y) == x.num * y.den <= y.num * x.den

\* C24: the progress values the store shows for one batch export, event
\* after event, never go down and stay between 0 and 100.
C24_ProgressMonotoneBounded ==
    \A b \in StoreCallers :
        LET shown == store.calls[b].shown IN
        /\ \A k \in 1..Len(shown) :
                /\ shown[k].den > 0
                /\ 0 <= shown[k].num
                /\ shown[k].num <= 100 * shown[k].den
        /\ \A k \in 1..(Len(shown) - 1) : FracLeq(shown[k], shown[k + 1])

\* an export of a text and two images ended after showing two preparing
\* values (0 and 22.5), three values of the exporting phase, the values of
\* the archive writer and 100
C24_Witness ==
    LET c == store.calls["B1"] IN
    /\ c.pc = "done" /\ c.outcome = "saved"
    /\ Len(c.shown) >= 8
    /\ exp["B1"].events[2].type = "exportPreparing"
    /\ c.shown[2] = [num |-> 4500, den |-> 200]
    /\ exp["B1"].events[3].type = "exportAsset"
    /\ exp["B1"].events[6].type = "exportZip"
    /\ c.shown[Len(c.shown)] = [num |-> 100, den |-> 1]

=============================================================================
